---- MODULE Spec2Model ----
(***************************************************************************)
(* gptengage: the multi-round debate orchestrator                          *)
(* (src/orchestrator/debate.rs) and the process executor                   *)
(* (src/invokers/base.rs), as state machines.                              *)
(*                                                                         *)
(* Strings that the code builds with format!/push_str are sequences of     *)
(* tokens (one token per literal piece or interpolated value), so that     *)
(* "contains" and "in order" are statements about the sequence.            *)
(* Option<T> is a sequence of length at most one: None == <<>>,            *)
(* Some(x) == <<x>>; Result<T, JoinError> likewise keeps only its Ok value,*)
(* which is what Iterator::flatten does with both.                         *)
(***************************************************************************)
EXTENDS Integers, Sequences, FiniteSets, TLC

\* ---------------------------------------------------------------- bounds
MaxParticipants == 2

MaxRounds == 3

\* a debate of the model makes at most this many invocations
\* (participants times rounds)
MaxInvocations == 6

\* execute_command: the timeout in ticks, the length of the input, what the
\* child prints per stream, the capacity of an OS pipe, the end of the clock
MaxTimeout == 2

MaxInput == 3

MaxOut == 2

PipeCap == 1

MaxTime == 6

\* the slack allowed on top of the timeout, in ticks
Slack == 1

\* the length of a backend response handed to parse_synthesis_response
MaxResponseLen == 5

\* the number of participants of an agent file
MaxAgents == 2

\* the debate command: participants, rounds and invocations of its debate
CmdMaxParticipants == 2

CmdMaxRounds == 2

CmdMaxInvocations == 4
CmdMaxInstances == 2
MaxParticipantsStr == 5
MaxJsonRounds == 2
MaxStoredExchanges == 1
LiveMaxParticipants == 2
LiveMaxRounds == 2
LiveMaxInvocations == 4

\* ------------------------------------------------------- Option / helpers
None == <<>>

Some(x) == <<x>>

RECURSIVE Flatten(_)
Flatten(ss) == IF ss = <<>> THEN <<>> ELSE Head(ss) \o Flatten(Tail(ss))

Range(s) == {s[k] : k \in 1..Len(s)}

\* ------------------------------------------------------ backend resolution
\* str::to_lowercase on the backend names the model uses
ToLowercase(name) ==
    CASE name = "Claude" -> "claude"
      [] name = "CODEX" -> "codex"
      [] name = "Gemini" -> "gemini"
      [] name = "MyPlug" -> "myplug"
      [] name = "MYPLUG" -> "myplug"
      [] OTHER -> name

\* a PluginConfig: plugin.name, plugin.command, the invoke and access
\* sections and detection.check_command
PluginConfig(name, command, mode, prompt_arg) ==
    [name |-> name, command |-> command, base_args |-> <<"--base">>,
     prompt_mode |-> mode, prompt_arg |-> prompt_arg,
     readonly_args |-> <<"--ro">>, write_args |-> <<"--rw">>,
     check_command |-> command]

\* PluginManager::validate_plugin
validate_plugin(config) ==
    IF config.name = "" THEN "EmptyName"
    ELSE IF config.command = "" THEN "EmptyCommand"
    ELSE IF ToLowercase(config.name) \in {"claude", "codex", "gemini"}
         THEN "ReservedName"
    ELSE "Ok"

\* PluginManager::load_plugin_file; a file is what toml::from_str makes of
\* it: None when it does not parse, Some(config) when it does
load_plugin_file(file) ==
    IF file = None THEN "ParseError" ELSE validate_plugin(file[1])

\* PluginManager::validate_plugin_file: <<"Ok", config>> or <<"Err", why>>
validate_plugin_file(file) ==
    IF file = None THEN <<"Err", "ParseError">>
    ELSE IF file[1].name = "" THEN <<"Err", "EmptyName">>
    ELSE IF file[1].command = "" THEN <<"Err", "EmptyCommand">>
    ELSE <<"Ok", file[1]>>

\* PluginManager::load_plugins: the configs kept, the files warned about.
\* The environment is None when HOME is not set, else Some(the .toml files
\* of ~/.gptengage/plugins).
load_plugins(files) == {f[1] : f \in {g \in files : load_plugin_file(g) = "Ok"}}

load_warnings(files) == {f \in files : load_plugin_file(f) # "Ok"}

\* PluginManager::new(): None for Err, Some(plugins) for Ok
PluginManager_new(env) ==
    IF env = None THEN None ELSE Some(load_plugins(env[1]))

\* PluginManager::get_plugin on the loaded plugins (the names of the files
\* of one directory are distinct in the model, so the map has one entry
\* per name)
get_plugin(plugins, name) ==
    IF \E c \in plugins : c.name = name
    THEN Some(CHOOSE c \in plugins : c.name = name)
    ELSE None

\* PluginManager::has_plugin
has_plugin(plugins, name) == \E c \in plugins : c.name = name

\* a resolution that compares the built-in names case-sensitively
get_invoker_caseSensitive(env, name) ==
    IF name \in {"claude", "codex", "gemini"}
    THEN Some([kind |-> "builtin", name |-> name])
    ELSE IF PluginManager_new(env) = None THEN None
    ELSE IF get_plugin(PluginManager_new(env)[1], name) = None THEN None
    ELSE Some([kind |-> "plugin", name |-> name,
               config |-> get_plugin(PluginManager_new(env)[1], name)[1]])

get_invoker(env, name) ==
    IF ToLowercase(name) \in {"claude", "codex", "gemini"}
    THEN Some([kind |-> "builtin", name |-> ToLowercase(name)])
    ELSE IF PluginManager_new(env) = None THEN None
    ELSE IF get_plugin(PluginManager_new(env)[1], name) = None THEN None
    ELSE Some([kind |-> "plugin", name |-> name,
               config |-> get_plugin(PluginManager_new(env)[1], name)[1]])

\* what a call of get_invoker writes to stderr: the warnings of load_plugins
\* when the name is not built in and HOME is set (mod.rs:66, plugins 118-125)
get_invoker_warnings(env, name) ==
    IF ToLowercase(name) \in {"claude", "codex", "gemini"} \/ env = None
    THEN {}
    ELSE {<<"plugin", f>> : f \in load_warnings(env[1])}

is_valid_cli(env, name) ==
    IF ToLowercase(name) \in {"claude", "codex", "gemini"} THEN TRUE
    ELSE IF PluginManager_new(env) # None
         THEN has_plugin(PluginManager_new(env)[1], name)
         ELSE FALSE

\* PluginInvoker::invoke up to its call of execute_command: the command, the
\* argument list and the stdin input it hands over
PluginInvoker_invoke(config, prompt, access_mode) ==
    LET args0 == config.base_args
                 \o (IF access_mode = "ReadOnly" THEN config.readonly_args
                     ELSE config.write_args)
    IN CASE config.prompt_mode = "Stdin" ->
              [cmd |-> config.command, args |-> args0, input |-> prompt]
         [] config.prompt_mode = "Arg" ->
              [cmd |-> config.command,
               args |-> args0 \o config.prompt_arg \o <<prompt>>,
               input |-> ""]
         [] config.prompt_mode = "ArgLast" ->
              [cmd |-> config.command, args |-> args0 \o <<prompt>>,
               input |-> ""]

\* the plugin files the model puts into a plugins directory: two valid
\* plugins whose names differ in case only, one with a reserved name, one
\* without a name, one without a command, and one that is not valid TOML
PluginFilePool ==
    { Some(PluginConfig("myplug", "mp", "Stdin", None)),
      Some(PluginConfig("MyPlug", "mp2", "ArgLast", None)),
      Some(PluginConfig("Claude", "evil", "Arg", Some("-p"))),
      Some(PluginConfig("", "x", "Stdin", None)),
      Some(PluginConfig("tool", "", "Stdin", None)),
      None }

\* the environment of a debate: HOME is set and the plugins directory holds
\* one valid plugin and one file that does not validate
DebateEnv ==
    Some({ Some(PluginConfig("myplug", "mp", "Stdin", None)),
           Some(PluginConfig("Claude", "evil", "Arg", Some("-p"))) })

\* ------------------------------------------------------------ participants
AgentDef1 ==
    [cli |-> "myplug", persona |-> "critic",
     instructions |-> "Challenge every claim.",
     expertise |-> <<"security", "testing">>,
     communication_style |-> None]

to_participant(agent) ==
    [cli |-> agent.cli, persona |-> Some(agent.persona),
     agent_definition |-> Some(agent)]

Participant_new(cli, persona) ==
    [cli |-> cli, persona |-> persona, agent_definition |-> None]

ParticipantPool ==
    { Participant_new("claude", None),
      to_participant(AgentDef1),
      Participant_new("ghost", Some("ceo")) }

\* Participant::display_name and RoundResponse::display_name (same body)
display_name(p) ==
    IF p.persona # None
    THEN <<p.cli, " (", p.persona[1], ")">>
    ELSE <<p.cli>>

RECURSIVE JoinComma(_)
JoinComma(items) ==
    IF items = <<>> THEN <<>>
    ELSE IF Len(items) = 1 THEN <<items[1]>>
    ELSE <<items[1], ", ">> \o JoinComma(Tail(items))

\* a prompt builder that prefers the bare persona to the agent definition
build_prompt_with_persona_personaFirst(p, base_prompt) ==
    IF p.persona # None
    THEN <<"[ROLE CONTEXT]\nYou are participating in this debate as a ",
           p.persona[1],
           ". Respond from that perspective, drawing on the expertise, priorities, and viewpoints typical of this role.\n[/ROLE CONTEXT]\n\n">>
         \o base_prompt
    ELSE IF p.agent_definition # None
    THEN <<"[AGENT CONTEXT]\n", "Role: ", p.agent_definition[1].persona, "\n",
           "Instructions: ", p.agent_definition[1].instructions, "\n",
           "[/AGENT CONTEXT]\n\n">> \o base_prompt
    ELSE base_prompt

build_prompt_with_persona(p, base_prompt) ==
    IF p.agent_definition # None
    THEN LET a == p.agent_definition[1] IN
         <<"[AGENT CONTEXT]\n", "Role: ", a.persona, "\n",
           "Instructions: ", a.instructions, "\n">>
         \o (IF a.expertise # <<>>
             THEN <<"Expertise: ">> \o JoinComma(a.expertise) \o <<"\n">>
             ELSE <<>>)
         \o (IF a.communication_style # None
             THEN <<"Communication Style: ", a.communication_style[1], "\n">>
             ELSE <<>>)
         \o <<"[/AGENT CONTEXT]\n\n">>
         \o base_prompt
    ELSE IF p.persona # None
    THEN <<"[ROLE CONTEXT]\nYou are participating in this debate as a ",
           p.persona[1],
           ". Respond from that perspective, drawing on the expertise, priorities, and viewpoints typical of this role.\n[/ROLE CONTEXT]\n\n">>
         \o base_prompt
    ELSE base_prompt

\* --------------------------------------------------------------- the debate
Topic == "T"

\* what a backend can print
Texts == {"x", "y"}

\* the errors Invoker::invoke can return (execute_command's Err values)
InvokeErrors == {"ProcessFailure", "Timeout"}

RoundResponse(p, response) ==
    [cli |-> p.cli, persona |-> p.persona, response |-> response]

RECURSIVE PreviousResponses(_)
PreviousResponses(prev_round) ==
    IF prev_round = <<>> THEN <<>>
    ELSE display_name(Head(prev_round))
         \o <<": ", Head(prev_round).response, "\n\n">>
         \o PreviousResponses(Tail(prev_round))

\* a context that re-injects every earlier round instead of the last one
BaseContext_allRounds(topic, rnd, rnds) ==
    <<"Topic: ", topic, "\n\nRound ", ToString(rnd), "\n\n">>
    \o (IF rnd > 1 /\ rnds # <<>>
        THEN <<"Previous responses:\n">> \o PreviousResponses(Flatten(rnds))
        ELSE <<>>)
    \o <<"Please provide your perspective on this topic.">>

\* lines 233-248: the base context of a round
BaseContext(topic, rnd, rnds) ==
    <<"Topic: ", topic, "\n\nRound ", ToString(rnd), "\n\n">>
    \o (IF rnd > 1 /\ rnds # <<>>
        THEN <<"Previous responses:\n">> \o PreviousResponses(rnds[Len(rnds)])
        ELSE <<>>)
    \o <<"Please provide your perspective on this topic.">>

\* a result that already carries a synthesis
DebateResult_withSynthesis(topic, rnds) ==
    [gptengage_version |-> Some("CARGO_PKG_VERSION"), topic |-> topic,
     rounds |-> rnds,
     synthesis |-> Some([summary |-> <<>>, consensus_points |-> <<>>,
                         disagreement_points |-> <<>>, key_insights |-> <<>>,
                         recommendation |-> None])]

\* lines 314-319
DebateResult(topic, rnds) ==
    [gptengage_version |-> Some("CARGO_PKG_VERSION"), topic |-> topic,
     rounds |-> rnds, synthesis |-> None]

\* `which <check_command>` as command_exists runs it, with what it found;
\* the backend command as invoke runs it
WhichProcess(cli, found) == [kind |-> "which", cli |-> cli, found |-> found]

BackendProcess(cli) == [kind |-> "backend", cli |-> cli, found |-> TRUE]

\* an exclusive range, 1..num_rounds
ForLoopContinues_exclusive(rnd, n) == rnd < n

\* a loop whose body runs before its condition is tested
ForLoopContinues_atLeastOnce(rnd, n) == rnd <= n \/ rnd = 1

\* line 229: for round in 1..=num_rounds
ForLoopContinues(rnd, n) == rnd <= n

\* an empty round that truncates the debate instead of failing it
NoRespondersResult_truncate(rnd, rnds) == <<"Ok", DebateResult(Topic, rnds)>>

\* lines 304-309: what an empty round returns
NoRespondersResult(rnd, rnds) ==
    <<"Err", [kind |-> "NoResponders", round |-> rnd]>>

VARIABLES
    participants,   \* the participant list handed to the orchestrator
    num_rounds,     \* the requested number of rounds
    pc,             \* where run_debate_with_participants is
    round,          \* the loop variable of `for round in 1..=num_rounds`
    base_context,   \* the base context of the current round
    rounds,         \* the accumulating Vec<Vec<RoundResponse>>
    tasks,          \* the JoinHandles pushed this round (participant indices)
    tpc,            \* per task: where the spawned task is
    ctx,            \* per task: the prompt the task captured
    inv,            \* per task: the value invoker.invoke(..).await produced
    slot,           \* per task: the task's output (Result<Option<RoundResponse>>)
    finishOrder,    \* the tasks of this round in completion order
    diag,           \* what was written to stderr: <<round, participant, kind>>
    ret,            \* the value returned to the caller, None while running
    procs           \* per task: the processes the task has spawned, in order

debateVars == <<participants, num_rounds, pc, round, base_context, rounds,
                tasks, tpc, ctx, inv, slot, finishOrder, diag, ret, procs>>

VARIABLES
    x_pc,           \* where execute_command is
    x_platform,     \* the build: cfg(unix) or cfg(windows)
    x_timeout,      \* the timeout argument
    x_remaining,    \* bytes of `input` write_all has not written yet
    x_stdin,        \* bytes buffered in the child's stdin pipe
    x_opipe,        \* bytes buffered in the child's stdout and stderr pipes
    x_captured,     \* bytes wait_with_output has read from each pipe
    child,          \* the child process
    now,            \* the clock, in ticks since execute_command was called
    x_armed,        \* when tokio::time::sleep was created, -1 before
    x_ret           \* the value execute_command returned

execVars == <<x_pc, x_platform, x_timeout, x_remaining, x_stdin, x_opipe,
              x_captured, child, now, x_armed, x_ret>>

VARIABLES
    warnings        \* the plugin files load_plugins warned about on stderr

VARIABLES
    f_pc,           \* a call of a function: "call", then "returned"
    f_call,         \* the function called and its arguments
    f_ret           \* the value returned

fnVars == <<f_pc, f_call, f_ret>>

VARIABLES
    c_pc,           \* where the debate command is
    c_opts,         \* the options of the command
    c_err           \* the error the command failed with, None otherwise

cmdVars == <<c_pc, c_opts, c_err>>

VARIABLES
    s_pc,           \* where generate_synthesis is
    s_cli,          \* its synthesizer_cli argument
    s_result,       \* its result argument, the DebateResult
    s_procs,        \* the processes it has spawned, in order
    s_ret           \* the value it returned, None while running

synVars == <<s_pc, s_cli, s_result, s_procs, s_ret>>

VARIABLES
    store,          \* the sessions directory: per session name, the JSON file
    i_pc,           \* per execution of run_invoke: where it is
    i_args,         \* per execution: the arguments and the piped stdin
    i_prompt,       \* per execution: the local `prompt`
    i_session,      \* per execution: the local `session`
    i_full_prompt,  \* per execution: the local `full_prompt`
    i_response,     \* per execution: the response of the backend, if any
    i_err           \* per execution: the error it failed with, if any

invVars == <<store, i_pc, i_args, i_prompt, i_session, i_full_prompt,
             i_response, i_err>>

vars == <<debateVars, warnings, execVars, fnVars, cmdVars, synVars, invVars>>

Idx == 1..Len(participants)

SeqsUpTo(S, n) == UNION {[1..k -> S] : k \in 0..n}

\* a call of run_debate_with_participants with at most maxP participants,
\* maxR rounds and maxI invocations in all
DebateStartWithin(maxP, maxR, maxI) ==
    /\ participants \in SeqsUpTo(ParticipantPool, maxP)
    /\ num_rounds \in 0..maxR
    /\ Len(participants) * num_rounds <= maxI
    /\ pc = "entry"
    /\ round = 0
    /\ base_context = <<>>
    /\ rounds = <<>>
    /\ tasks = <<>>
    /\ tpc = [i \in 1..Len(participants) |-> "idle"]
    /\ ctx = [i \in 1..Len(participants) |-> <<>>]
    /\ inv = [i \in 1..Len(participants) |-> None]
    /\ slot = [i \in 1..Len(participants) |-> <<>>]
    /\ finishOrder = <<>>
    /\ diag = {}
    /\ ret = None
    /\ procs = [i \in 1..Len(participants) |-> <<>>]
    /\ warnings = {}

DebateStart == DebateStartWithin(MaxParticipants, MaxRounds, MaxInvocations)

\* an entry check that lets an empty participant list through
NoParticipants_never(ps) == FALSE

\* line 223: if participants.is_empty()
NoParticipants(ps) == ps = <<>>

\* lines 223-227: the emptiness check and `let mut rounds = Vec::new()`
Entry ==
    /\ pc = "entry"
    /\ IF NoParticipants(participants)
       THEN /\ pc' = "aborted"
            /\ ret' = <<"Err", [kind |-> "NoParticipants", round |-> 0]>>
            /\ UNCHANGED round
       ELSE /\ pc' = "loop"
            /\ round' = 1
            /\ UNCHANGED ret
    /\ UNCHANGED <<execVars, fnVars, invVars, cmdVars, synVars, warnings, participants, num_rounds, base_context, rounds, tasks, tpc,
                   ctx, inv, slot, finishOrder, diag, procs>>

\* lines 229-251 and 314-319: the head of the for loop, or the final Ok
LoopHead ==
    /\ pc = "loop"
    /\ IF ForLoopContinues(round, num_rounds)
       THEN /\ base_context' = BaseContext(Topic, round, rounds)
            /\ tasks' = <<>>
            /\ tpc' = [i \in Idx |-> "idle"]
            /\ ctx' = [i \in Idx |-> <<>>]
            /\ inv' = [i \in Idx |-> None]
            /\ slot' = [i \in Idx |-> <<>>]
            /\ finishOrder' = <<>>
            /\ procs' = [i \in Idx |-> <<>>]
            /\ pc' = "spawning"
            /\ UNCHANGED ret
       ELSE /\ pc' = "complete"
            /\ ret' = <<"Ok", DebateResult(Topic, rounds)>>
            /\ UNCHANGED <<base_context, tasks, tpc, ctx, inv, slot, finishOrder, procs>>
    /\ UNCHANGED <<execVars, fnVars, invVars, cmdVars, synVars, warnings, participants, num_rounds, round, rounds, diag>>

\* lines 253-295: one iteration of `for participant in &participants`
Spawn ==
    /\ pc = "spawning"
    /\ LET i == Len(tasks) + 1 IN
       /\ i <= Len(participants)
       /\ ctx' = [ctx EXCEPT ![i] = build_prompt_with_persona(participants[i], base_context)]
       /\ tpc' = [tpc EXCEPT ![i] = "get_invoker"]
       /\ tasks' = Append(tasks, i)
       /\ pc' = IF i = Len(participants) THEN "joining" ELSE "spawning"
    /\ UNCHANGED <<execVars, fnVars, invVars, cmdVars, synVars, warnings, participants, num_rounds, round, base_context, rounds,
                   inv, slot, finishOrder, diag, ret, procs>>

Finish(i, out) ==
    /\ tpc' = [tpc EXCEPT ![i] = "finished"]
    /\ slot' = [slot EXCEPT ![i] = <<out>>]
    /\ finishOrder' = Append(finishOrder, i)

\* lines 258-267; resolving a name that is not built in loads the plugins
\* directory, which warns about every file it cannot load
TaskGetInvoker(i) ==
    /\ tpc[i] = "get_invoker"
    /\ warnings' = warnings \cup get_invoker_warnings(DebateEnv, participants[i].cli)
    /\ IF get_invoker(DebateEnv, participants[i].cli) = None
       THEN /\ diag' = diag \cup {<<round, i, "unknown">>}
            /\ Finish(i, None)
       ELSE /\ tpc' = [tpc EXCEPT ![i] = "is_available"]
            /\ UNCHANGED <<slot, finishOrder, diag>>
    /\ UNCHANGED <<execVars, fnVars, invVars, cmdVars, synVars, participants, num_rounds, pc, round,
                   base_context, rounds, tasks, ctx, inv, ret, procs>>

\* a task that invokes the backend whatever is_available said
BackendUnavailable_never(available) == FALSE

\* line 269: if !invoker.is_available()
BackendUnavailable(available) == ~available

\* lines 269-277: is_available() runs command_exists, which spawns `which`
\* and waits for it (base.rs:70-76); on true invoke is called, which spawns
\* the backend command
TaskIsAvailable(i) ==
    /\ tpc[i] = "is_available"
    /\ \E available \in BOOLEAN :
         IF BackendUnavailable(available)
         THEN /\ procs' = [procs EXCEPT ![i] =
                             Append(@, WhichProcess(participants[i].cli, available))]
              /\ diag' = diag \cup {<<round, i, "unavailable">>}
              /\ Finish(i, None)
         ELSE /\ procs' = [procs EXCEPT ![i] =
                             @ \o <<WhichProcess(participants[i].cli, available),
                                    BackendProcess(participants[i].cli)>>]
              /\ tpc' = [tpc EXCEPT ![i] = "invoke"]
              /\ UNCHANGED <<slot, finishOrder, diag>>
    /\ UNCHANGED <<execVars, fnVars, invVars, cmdVars, synVars, warnings, participants, num_rounds, pc, round, base_context, rounds,
                   tasks, ctx, inv, ret>>

\* how often the task has called invoke
Attempts(i) == Len(SelectSeq(procs[i], LAMBDA q : q.kind = "backend"))

\* an Err arm that calls invoke once more
OnInvokeErr_retry(attempts) == IF attempts < 2 THEN "retry" ELSE "None"

\* lines 286-289: the Err arm logs the failure and yields None
OnInvokeErr(attempts) == "None"

\* lines 277-291: invoke(..).await completes with Ok(response) or Err(e)
TaskInvokeReturns(i) ==
    /\ tpc[i] = "invoke"
    /\ \E res \in ({<<"Ok", t>> : t \in Texts} \cup {<<"Err", e>> : e \in InvokeErrors}) :
         /\ inv' = [inv EXCEPT ![i] = Some(res)]
         /\ IF res[1] = "Ok"
            THEN /\ Finish(i, Some(RoundResponse(participants[i], res[2])))
                 /\ UNCHANGED <<diag, procs>>
            ELSE /\ diag' = diag \cup {<<round, i, "failed">>}
                 /\ IF OnInvokeErr(Attempts(i)) = "retry"
                    THEN /\ procs' = [procs EXCEPT ![i] =
                                       Append(@, BackendProcess(participants[i].cli))]
                         /\ UNCHANGED <<tpc, slot, finishOrder>>
                    ELSE /\ Finish(i, None)
                         /\ UNCHANGED procs
    /\ UNCHANGED <<execVars, fnVars, invVars, cmdVars, synVars, warnings, participants, num_rounds, pc, round, base_context, rounds,
                   tasks, ctx, ret>>

\* a join that gives up as soon as one task finished without a response
JoinAllReady_failFast ==
    \/ \A k \in 1..Len(tasks) : tpc[tasks[k]] = "finished"
    \/ \E k \in 1..Len(tasks) : slot[tasks[k]] = <<None>>

\* line 298: futures::future::join_all is ready once every future is
JoinAllReady == \A k \in 1..Len(tasks) : tpc[tasks[k]] = "finished"

\* results taken in completion order
JoinAllResults_completionOrder ==
    [k \in 1..Len(finishOrder) |-> slot[finishOrder[k]]]

\* line 298: the output of join_all keeps the order of `tasks`
JoinAllResults == [k \in 1..Len(tasks) |-> slot[tasks[k]]]

\* a collection into Option<Vec<_>>: one None makes the whole round empty
CollectResponses_allOrNothing(results) ==
    IF \E k \in 1..Len(results) : results[k] = <<None>>
    THEN <<>>
    ELSE Flatten(Flatten(results))

\* a collection that stops at the first task without a response
RECURSIVE CollectResponses_untilFailure(_)
CollectResponses_untilFailure(results) ==
    IF results = <<>> \/ Head(results) = <<None>> THEN <<>>
    ELSE Flatten(Head(results)) \o CollectResponses_untilFailure(Tail(results))

\* lines 300-301: results.into_iter().flatten().flatten().collect()
CollectResponses(results) == Flatten(Flatten(results))

\* a check that lets a round without responses through
RoundIsEmpty_never(round_responses) == FALSE

\* line 304: if round_responses.is_empty()
RoundIsEmpty(round_responses) == round_responses = <<>>

\* a loop variable that skips a round
NextRound_skip(rnd) == rnd + 2

\* line 229: the range 1..=num_rounds yields the rounds one by one
NextRound(rnd) == rnd + 1

\* lines 298-311
JoinAll ==
    /\ pc = "joining"
    /\ JoinAllReady
    /\ LET round_responses == CollectResponses(JoinAllResults) IN
       IF RoundIsEmpty(round_responses)
       THEN /\ pc' = "aborted"
            /\ ret' = NoRespondersResult(round, rounds)
            /\ UNCHANGED <<rounds, round>>
       ELSE /\ rounds' = Append(rounds, round_responses)
            /\ round' = NextRound(round)
            /\ pc' = "loop"
            /\ UNCHANGED ret
    /\ UNCHANGED <<execVars, fnVars, invVars, cmdVars, synVars, warnings, participants, num_rounds, base_context, tasks, tpc, ctx,
                   inv, slot, finishOrder, diag, procs>>

DebateNext ==
    \/ Entry
    \/ LoopHead
    \/ Spawn
    \/ \E i \in Idx : TaskGetInvoker(i)
    \/ \E i \in Idx : TaskIsAvailable(i)
    \/ \E i \in Idx : TaskInvokeReturns(i)
    \/ JoinAll

\* ------------------------------------------------------- execute_command
Streams == {"stdout", "stderr"}

NoChild ==
    [state |-> "none", stdin_open |-> FALSE, status |-> "none",
     exit_time |-> -1, out |-> [s \in Streams |-> 0],
     signalled |-> FALSE, awaited |-> FALSE]

XNone == [tag |-> "None", kind |-> "", data |-> 0]

XOk(stdout) == [tag |-> "Ok", kind |-> "", data |-> stdout]

XErr(kind, data) == [tag |-> "Err", kind |-> kind, data |-> data]

ExecOff ==
    /\ x_pc = "off"
    /\ x_platform = "unix"
    /\ x_timeout = 0
    /\ x_remaining = 0
    /\ x_stdin = 0
    /\ x_opipe = [s \in Streams |-> 0]
    /\ x_captured = [s \in Streams |-> 0]
    /\ child = NoChild
    /\ now = 0
    /\ x_armed = -1
    /\ x_ret = XNone

\* the call: any timeout, any input length, either build
ExecStart ==
    /\ x_pc = "call"
    /\ x_platform \in {"unix", "windows"}
    /\ x_timeout \in 0..MaxTimeout
    /\ x_remaining \in 0..MaxInput
    /\ x_stdin = 0
    /\ x_opipe = [s \in Streams |-> 0]
    /\ x_captured = [s \in Streams |-> 0]
    /\ child = NoChild
    /\ now = 0
    /\ x_armed = -1
    /\ x_ret = XNone

DebateOff ==
    /\ participants = <<>>
    /\ num_rounds = 0
    /\ pc = "off"
    /\ round = 0
    /\ base_context = <<>>
    /\ rounds = <<>>
    /\ tasks = <<>>
    /\ tpc = <<>>
    /\ ctx = <<>>
    /\ inv = <<>>
    /\ slot = <<>>
    /\ finishOrder = <<>>
    /\ diag = {}
    /\ ret = None
    /\ procs = <<>>
    /\ warnings = {}

\* line 19: command.spawn()?
XSpawn ==
    /\ x_pc = "call"
    /\ \E spawned \in BOOLEAN :
         IF spawned
         THEN /\ child' = [child EXCEPT !.state = "running", !.stdin_open = TRUE]
              /\ x_pc' = "write"
              /\ UNCHANGED x_ret
         ELSE /\ x_pc' = "returned"
              /\ x_ret' = XErr("Io", 0)
              /\ UNCHANGED child
    /\ UNCHANGED <<debateVars, warnings, fnVars, invVars, cmdVars, synVars, x_platform, x_timeout, x_remaining, x_stdin,
                   x_opipe, x_captured, now, x_armed>>

\* what one poll of write_all (line 27) does
WriteAllPoll(remaining, stdin_open, buffered) ==
    IF remaining = 0 THEN "done"
    ELSE IF ~stdin_open THEN "broken_pipe"
    ELSE IF buffered < PipeCap THEN "write"
    ELSE "pending"

\* lines 25-33: stdin.write_all(input).await?, then the select! is entered
XWrite ==
    /\ x_pc = "write"
    /\ LET r == WriteAllPoll(x_remaining, child.stdin_open, x_stdin) IN
       /\ r # "pending"
       /\ CASE r = "done" ->
                 /\ x_pc' = "select"
                 /\ x_armed' = now
                 /\ UNCHANGED <<x_remaining, x_stdin, x_ret>>
            [] r = "broken_pipe" ->
                 /\ x_pc' = "returned"
                 /\ x_ret' = XErr("Io", 0)
                 /\ UNCHANGED <<x_remaining, x_stdin, x_armed>>
            [] r = "write" ->
                 /\ x_remaining' = x_remaining - 1
                 /\ x_stdin' = x_stdin + 1
                 /\ UNCHANGED <<x_pc, x_armed, x_ret>>
    /\ UNCHANGED <<debateVars, warnings, fnVars, invVars, cmdVars, synVars, x_platform, x_timeout, x_opipe, x_captured,
                   child, now>>

\* wait_with_output reads both pipes to their end
XDrain(s) ==
    /\ x_pc = "select"
    /\ x_opipe[s] > 0
    /\ x_opipe' = [x_opipe EXCEPT ![s] = @ - 1]
    /\ x_captured' = [x_captured EXCEPT ![s] = @ + 1]
    /\ UNCHANGED <<debateVars, warnings, fnVars, invVars, cmdVars, synVars, x_pc, x_platform, x_timeout, x_remaining,
                   x_stdin, child, now, x_armed, x_ret>>

\* a wait that does not read the pipes to their end
WaitWithOutputReady_exitOnly == child.state = "exited"

\* line 34: wait_with_output is ready once the child exited and both pipes
\* are at EOF
WaitWithOutputReady ==
    /\ child.state = "exited"
    /\ \A s \in Streams : x_opipe[s] = 0

\* lines 36-45: the value of the completion branch
CompletionResult(status, captured) ==
    IF status = "success"
    THEN XOk(captured["stdout"])
    ELSE XErr("ProcessFailure", captured["stderr"])

\* lines 34-48: the completion branch of select!  The Err(e) arm of line 46
\* needs waitpid or a pipe read of the parent to fail, which no behaviour of
\* the child produces; the model has no such failure.
XCompleted ==
    /\ x_pc = "select"
    /\ WaitWithOutputReady
    /\ child' = [child EXCEPT !.awaited = TRUE]
    /\ x_ret' = CompletionResult(child.status, x_captured)
    /\ x_pc' = "returned"
    /\ UNCHANGED <<debateVars, warnings, fnVars, invVars, cmdVars, synVars, x_platform, x_timeout, x_remaining, x_stdin,
                   x_opipe, x_captured, now, x_armed>>

TimerDue == x_armed >= 0 /\ now - x_armed >= x_timeout

\* lines 52-62: what the timer branch does to the child
KillOnTimeout(platform) == platform = "unix"

\* lines 49-65: the timer branch of select!
XTimedOut ==
    /\ x_pc = "select"
    /\ TimerDue
    /\ child' = [child EXCEPT !.signalled = KillOnTimeout(x_platform)]
    /\ x_ret' = XErr("Timeout", x_timeout)
    /\ x_pc' = "returned"
    /\ UNCHANGED <<debateVars, warnings, fnVars, invVars, cmdVars, synVars, x_platform, x_timeout, x_remaining, x_stdin,
                   x_opipe, x_captured, now, x_armed>>

\* ---- the child, which the executor does not control
ChildRunning == x_pc \in {"write", "select"} /\ child.state = "running"

ChildRead ==
    /\ ChildRunning
    /\ child.stdin_open
    /\ x_stdin > 0
    /\ x_stdin' = x_stdin - 1
    /\ UNCHANGED <<debateVars, warnings, fnVars, invVars, cmdVars, synVars, x_pc, x_platform, x_timeout, x_remaining,
                   x_opipe, x_captured, child, now, x_armed, x_ret>>

ChildCloseStdin ==
    /\ ChildRunning
    /\ child.stdin_open
    /\ child' = [child EXCEPT !.stdin_open = FALSE]
    /\ x_stdin' = 0
    /\ UNCHANGED <<debateVars, warnings, fnVars, invVars, cmdVars, synVars, x_pc, x_platform, x_timeout, x_remaining,
                   x_opipe, x_captured, now, x_armed, x_ret>>

ChildEmit(s) ==
    /\ ChildRunning
    /\ child.out[s] < MaxOut
    /\ x_opipe[s] < PipeCap
    /\ child' = [child EXCEPT !.out[s] = @ + 1]
    /\ x_opipe' = [x_opipe EXCEPT ![s] = @ + 1]
    /\ UNCHANGED <<debateVars, warnings, fnVars, invVars, cmdVars, synVars, x_pc, x_platform, x_timeout, x_remaining,
                   x_stdin, x_captured, now, x_armed, x_ret>>

ChildExit(status) ==
    /\ ChildRunning
    /\ child' = [child EXCEPT !.state = "exited", !.status = status,
                              !.stdin_open = FALSE, !.exit_time = now]
    /\ x_stdin' = 0
    /\ UNCHANGED <<debateVars, warnings, fnVars, invVars, cmdVars, synVars, x_pc, x_platform, x_timeout, x_remaining,
                   x_opipe, x_captured, now, x_armed, x_ret>>

\* ---- the clock: it advances only while execute_command is suspended
Suspended ==
    \/ x_pc = "write" /\ WriteAllPoll(x_remaining, child.stdin_open, x_stdin) = "pending"
    \/ /\ x_pc = "select"
       /\ ~TimerDue
       /\ ~WaitWithOutputReady
       /\ \A s \in Streams : x_opipe[s] = 0

Tick ==
    /\ Suspended
    /\ now < MaxTime
    /\ now' = now + 1
    /\ UNCHANGED <<debateVars, warnings, fnVars, invVars, cmdVars, synVars, x_pc, x_platform, x_timeout, x_remaining,
                   x_stdin, x_opipe, x_captured, child, x_armed, x_ret>>

ExecNext ==
    \/ XSpawn
    \/ XWrite
    \/ \E s \in Streams : XDrain(s)
    \/ XCompleted
    \/ XTimedOut
    \/ ChildRead
    \/ ChildCloseStdin
    \/ \E s \in Streams : ChildEmit(s)
    \/ \E status \in {"success", "failure"} : ChildExit(status)
    \/ Tick

\* ----------------------------------------------------------- agent files
\* String::len, the length in bytes of the UTF-8 encoding, on the strings
\* an agent file of the model uses. Characters outside ASCII are written as
\* Rust writes them, \u{e9} (2 bytes) and \u{65e5} etc. (3 bytes each).
Utf8Len(str) ==
    CASE str = "" -> 0
      [] str = " " -> 1
      [] str = "   " -> 3
      [] str = "short" -> 5
      [] str = "Be concise" -> 10
      [] str = "S\\u{e9} breve." -> 10
      [] str = "\\u{65e5}\\u{672c}\\u{8a9e}\\u{3067}\\u{7b54}\\u{3048}\\u{3066}" -> 21
      [] str = "Challenge every claim." -> 22
      [] str = "claude" -> 6
      [] str = "myplug" -> 6
      [] str = "critic" -> 6

\* str.trim().is_empty()
TrimIsEmpty(str) == str \in {"", " ", "   "}

\* AgentDefinition::validate
validate(agent) ==
    IF TrimIsEmpty(agent.cli) THEN "EmptyCli"
    ELSE IF TrimIsEmpty(agent.persona) THEN "EmptyPersona"
    ELSE IF TrimIsEmpty(agent.instructions) THEN "EmptyInstructions"
    ELSE IF Utf8Len(agent.instructions) < 10 THEN "ShortInstructions"
    ELSE "Ok"

\* a load that accepts every schema version
AgentFile_load_anyVersion(content) ==
    IF content = None THEN <<"Err", "ReadOrParse">>
    ELSE IF content[1].participants = <<>> THEN <<"Err", "NoParticipants">>
    ELSE IF \E k \in 1..Len(content[1].participants) :
                validate(content[1].participants[k]) # "Ok"
         THEN <<"Err", "ValidationFailed">>
    ELSE <<"Ok", content[1]>>

\* AgentFile::load; the content is None when the file cannot be read or is
\* not an AgentFile in JSON, else Some(the deserialized file)
AgentFile_load(content) ==
    IF content = None THEN <<"Err", "ReadOrParse">>
    ELSE IF content[1].schema_version # "1.0" THEN <<"Err", "SchemaVersion">>
    ELSE IF content[1].participants = <<>> THEN <<"Err", "NoParticipants">>
    ELSE IF \E k \in 1..Len(content[1].participants) :
                validate(content[1].participants[k]) # "Ok"
         THEN <<"Err", "ValidationFailed">>
    ELSE <<"Ok", content[1]>>

\* AgentFile::to_participants
to_participants(file) ==
    [k \in 1..Len(file.participants) |-> to_participant(file.participants[k])]

AgentDef(cli, persona, instructions) ==
    [cli |-> cli, persona |-> persona, instructions |-> instructions,
     expertise |-> <<>>, communication_style |-> None]

\* agent definitions: one field at a time blank, and instructions of
\* 5, 9, 7 and 10 characters
LoadAgents ==
    {AgentDef(cli, "critic", "Be concise") : cli \in {"claude", "", " "}}
    \cup {AgentDef("claude", persona, "Be concise") : persona \in {"", "   "}}
    \cup {AgentDef("claude", "critic", instructions) :
             instructions \in {"", "   ", "short", "S\\u{e9} breve.", "\\u{65e5}\\u{672c}\\u{8a9e}\\u{3067}\\u{7b54}\\u{3048}\\u{3066}",
                               "Challenge every claim."}}

AgentFiles ==
    [schema_version : {"1.0", "2.0"},
     participants : SeqsUpTo(LoadAgents, MaxAgents)]

\* ----------------------------------------------------------- the synthesis
\* A backend response is a sequence of characters; "s" stands for the member
\* "summary":"ok", "r" for the member ,"recommendation":"do", " " for a
\* whitespace character and "t" for any other text.
ResponseChars == {"{", "}", "s", "r", " ", "t"}

\* str::find and str::rfind: the Option of the first and of the last index
find(str, c) ==
    IF \E k \in 1..Len(str) : str[k] = c
    THEN Some(CHOOSE k \in 1..Len(str) :
                 str[k] = c /\ \A j \in 1..(k - 1) : str[j] # c)
    ELSE None

rfind(str, c) ==
    IF \E k \in 1..Len(str) : str[k] = c
    THEN Some(CHOOSE k \in 1..Len(str) :
                 str[k] = c /\ \A j \in (k + 1)..Len(str) : str[j] # c)
    ELSE None

\* str::trim
RECURSIVE TrimStart(_)
TrimStart(str) ==
    IF str # <<>> /\ Head(str) = " " THEN TrimStart(Tail(str)) ELSE str

RECURSIVE TrimEnd(_)
TrimEnd(str) ==
    IF str # <<>> /\ str[Len(str)] = " "
    THEN TrimEnd(SubSeq(str, 1, Len(str) - 1))
    ELSE str

Trim(str) == TrimEnd(TrimStart(str))

\* the characters of a JSON text that are not insignificant whitespace
RECURSIVE SkipWhitespace(_)
SkipWhitespace(str) ==
    IF str = <<>> THEN <<>>
    ELSE IF Head(str) = " " THEN SkipWhitespace(Tail(str))
    ELSE <<Head(str)>> \o SkipWhitespace(Tail(str))

\* serde_json::from_str::<Synthesis>: Some(value) for one object with the
\* required summary member, the list members defaulting to empty
from_str_Synthesis(json_str) ==
    CASE SkipWhitespace(json_str) = <<"{", "s", "}">> ->
           Some([summary |-> <<"ok">>, consensus_points |-> <<>>,
                 disagreement_points |-> <<>>, key_insights |-> <<>>,
                 recommendation |-> None])
      [] SkipWhitespace(json_str) = <<"{", "s", "r", "}">> ->
           Some([summary |-> <<"ok">>, consensus_points |-> <<>>,
                 disagreement_points |-> <<>>, key_insights |-> <<>>,
                 recommendation |-> Some("do")])
      [] OTHER -> None

\* lines 411-417
FallbackSynthesis(response) ==
    [summary |-> Trim(response), consensus_points |-> <<>>,
     disagreement_points |-> <<>>, key_insights |-> <<>>,
     recommendation |-> None]

\* a parser that stops at the first closing brace
parse_synthesis_response_firstClose(response) ==
    LET json_start == find(response, "{")
        json_end == find(response, "}")
    IN IF json_start # None /\ json_end # None /\ json_start[1] < json_end[1]
          /\ from_str_Synthesis(SubSeq(response, json_start[1], json_end[1])) # None
       THEN <<"Ok", from_str_Synthesis(SubSeq(response, json_start[1], json_end[1]))[1]>>
       ELSE <<"Ok", FallbackSynthesis(response)>>

parse_synthesis_response(response) ==
    LET json_start == find(response, "{")
        json_end == rfind(response, "}")
    IN IF json_start # None /\ json_end # None /\ json_start[1] < json_end[1]
          /\ from_str_Synthesis(SubSeq(response, json_start[1], json_end[1])) # None
       THEN <<"Ok", from_str_Synthesis(SubSeq(response, json_start[1], json_end[1]))[1]>>
       ELSE <<"Ok", FallbackSynthesis(response)>>

\* ---------------------------------------------------------------- templates
TemplateParticipant(cli, persona, instructions) ==
    [cli |-> cli, persona |-> persona, instructions |-> instructions,
     expertise |-> <<>>]

DebateTemplate(name, ps) ==
    [name |-> name, default_rounds |-> 2, participants |-> ps]

\* TemplateManager::validate_template
validate_template(template) ==
    IF template.name = "" THEN "EmptyName"
    ELSE IF template.participants = <<>> THEN "NoParticipants"
    ELSE IF \E k \in 1..Len(template.participants) :
                \/ template.participants[k].cli = ""
                \/ template.participants[k].persona = ""
                \/ Utf8Len(template.participants[k].instructions) < 10
         THEN "BadParticipant"
    ELSE "Ok"

\* TemplateManager::load_template_file; a file is None when it does not
\* parse, Some(template) when it does
load_template_file(file) ==
    IF file = None THEN "ParseError" ELSE validate_template(file[1])

\* TemplateManager::load_user_templates: the templates kept, the files
\* warned about
load_user_templates(files) ==
    {f[1] : f \in {g \in files : load_template_file(g) = "Ok"}}

load_user_templates_warnings(files) ==
    {<<"template", f>> : f \in {g \in files : load_template_file(g) # "Ok"}}

\* get_builtin_templates(), by its first template, code-review
get_builtin_templates ==
    { DebateTemplate("code-review",
        << [cli |-> "claude", persona |-> "Security Reviewer",
            instructions |-> "Focus on security vulnerabilities",
            expertise |-> <<"security", "authentication">>],
           [cli |-> "claude", persona |-> "Performance Reviewer",
            instructions |-> "Identify performance bottlenecks",
            expertise |-> <<"performance", "algorithms">>],
           [cli |-> "claude", persona |-> "Maintainability Reviewer",
            instructions |-> "Evaluate code readability",
            expertise |-> <<"clean code", "testing">>] >>) }

\* TemplateManager::get_template: user templates first, then built-in ones
get_template(user_templates, name) ==
    IF \E t \in user_templates : t.name = name
    THEN Some(CHOOSE t \in user_templates : t.name = name)
    ELSE IF \E t \in get_builtin_templates : t.name = name
    THEN Some(CHOOSE t \in get_builtin_templates : t.name = name)
    ELSE None

\* DebateTemplate::to_participants
template_to_participants(template) ==
    [k \in 1..Len(template.participants) |->
        to_participant([cli |-> template.participants[k].cli,
                        persona |-> template.participants[k].persona,
                        instructions |-> template.participants[k].instructions,
                        expertise |-> template.participants[k].expertise,
                        communication_style |-> None])]

\* the .toml files of ~/.gptengage/templates: one valid template, one whose
\* participant has instructions of 5 bytes, one that is not valid TOML
TemplateEnv ==
    { Some(DebateTemplate("review",
             <<TemplateParticipant("myplug", "critic", "Be concise")>>)),
      Some(DebateTemplate("broken",
             <<TemplateParticipant("claude", "critic", "short")>>)),
      None }

\* ------------------------------------------------------ the debate command
\* the agent definitions of the agent files handed to the command
CmdAgents ==
    { AgentDef1,
      AgentDef("claude", "critic", "Be concise"),
      AgentDef("claude", "critic", "short") }

CmdAgentFiles ==
    {None} \cup
    {Some(file) : file \in [schema_version : {"1.0", "2.0"},
                            participants : SeqsUpTo(CmdAgents, CmdMaxParticipants)]}

\* no synthesis, or a synthesis by the named backend
CmdSynthesizers == {None, Some("claude"), Some("myplug"), Some("ghost")}

\* the options: where the participants come from, the rounds, the synthesis
CmdOptions ==
    [source : {"agent_file"}, agent_file : CmdAgentFiles,
     rounds : 0..CmdMaxRounds, synthesizer : CmdSynthesizers]
    \cup [source : {"participants"},
          participants : SeqsUpTo(ParticipantPool, CmdMaxParticipants) \ {<<>>},
          rounds : 0..CmdMaxRounds, synthesizer : CmdSynthesizers]
    \cup [source : {"template"}, template : {"review", "broken", "missing", "code-review"},
          rounds : 0..CmdMaxRounds, synthesizer : CmdSynthesizers]
    \cup [source : {"agent"}, agent : {"claude", "Gemini", "myplug"},
          instances : {None} \cup {Some(n) : n \in 0..CmdMaxInstances},
          rounds : 0..CmdMaxRounds, synthesizer : CmdSynthesizers]
    \cup [source : {"default"},
          rounds : 0..CmdMaxRounds, synthesizer : CmdSynthesizers]

\* a default list in which every backend argues under a persona
DefaultParticipants_withPersonas ==
    << Participant_new("claude", Some("claude")),
       Participant_new("codex", Some("codex")),
       Participant_new("gemini", Some("gemini")) >>

\* orchestrator/debate.rs 426-430: the participants of run_debate
DefaultParticipants ==
    << Participant_new("claude", None),
       Participant_new("codex", None),
       Participant_new("gemini", None) >>

\* commands/debate.rs 64: options.instances.unwrap_or(3)
num_instances(opts) == IF opts.instances = None THEN 3 ELSE opts.instances[1]

\* commands/debate.rs 67: the names --agent accepts
valid_clis == {"claude", "codex", "gemini"}

\* the number of participants the options ask for
CmdParticipantCount(opts) ==
    CASE opts.source = "agent_file" ->
           IF opts.agent_file = None THEN 0
           ELSE Len(opts.agent_file[1].participants)
      [] opts.source = "participants" -> Len(opts.participants)
      [] opts.source = "agent" -> num_instances(opts)
      [] opts.source = "default" -> Len(DefaultParticipants)
      [] opts.source = "template" ->
           IF get_template(load_user_templates(TemplateEnv), opts.template) = None
           THEN 0
           ELSE Len(get_template(load_user_templates(TemplateEnv),
                                 opts.template)[1].participants)

CmdStart ==
    /\ c_pc = "start"
    /\ c_opts \in CmdOptions
    /\ CmdParticipantCount(c_opts) * c_opts.rounds <= CmdMaxInvocations
    /\ c_err = None

\* the call DebateOrchestrator::run_debate_with_participants(topic, ps, n, ..)
DebateCall(ps, n) ==
    /\ participants' = ps
    /\ num_rounds' = n
    /\ pc' = "entry"
    /\ round' = 0
    /\ base_context' = <<>>
    /\ rounds' = <<>>
    /\ tasks' = <<>>
    /\ tpc' = [i \in 1..Len(ps) |-> "idle"]
    /\ ctx' = [i \in 1..Len(ps) |-> <<>>]
    /\ inv' = [i \in 1..Len(ps) |-> None]
    /\ slot' = [i \in 1..Len(ps) |-> <<>>]
    /\ finishOrder' = <<>>
    /\ diag' = {}
    /\ ret' = None
    /\ procs' = [i \in 1..Len(ps) |-> <<>>]

\* commands/debate.rs 62-93: multi-instance mode, N participants of one CLI
CmdAgent ==
    /\ c_pc = "start"
    /\ c_opts.source = "agent"
    /\ IF ToLowercase(c_opts.agent) \notin valid_clis
       THEN /\ c_pc' = "failed"
            /\ c_err' = Some("InvalidCli")
            /\ UNCHANGED debateVars
       ELSE /\ c_pc' = "debate"
            /\ DebateCall([k \in 1..num_instances(c_opts) |->
                             Participant_new(c_opts.agent, None)],
                          c_opts.rounds)
            /\ UNCHANGED c_err
    /\ UNCHANGED <<warnings, execVars, fnVars, invVars, synVars, c_opts>>

\* commands/debate.rs 126-130 and orchestrator/debate.rs 420-435: the
\* default participants
CmdDefault ==
    /\ c_pc = "start"
    /\ c_opts.source = "default"
    /\ c_pc' = "debate"
    /\ DebateCall(DefaultParticipants, c_opts.rounds)
    /\ UNCHANGED <<warnings, execVars, fnVars, invVars, synVars, c_opts, c_err>>

\* commands/debate.rs 94-111: AgentFile::load(..)?, to_participants, the debate
CmdAgentFile ==
    /\ c_pc = "start"
    /\ c_opts.source = "agent_file"
    /\ LET loaded == AgentFile_load(c_opts.agent_file) IN
       IF loaded[1] = "Err"
       THEN /\ c_pc' = "failed"
            /\ c_err' = Some(loaded[2])
            /\ UNCHANGED debateVars
       ELSE /\ c_pc' = "debate"
            /\ DebateCall(to_participants(loaded[2]), c_opts.rounds)
            /\ UNCHANGED c_err
    /\ UNCHANGED <<warnings, execVars, fnVars, invVars, synVars, c_opts>>

\* commands/debate.rs 112-125: the parsed participant list, the debate
CmdParticipants ==
    /\ c_pc = "start"
    /\ c_opts.source = "participants"
    /\ c_pc' = "debate"
    /\ DebateCall(c_opts.participants, c_opts.rounds)
    /\ UNCHANGED <<warnings, execVars, fnVars, invVars, synVars, c_opts, c_err>>

\* the --template branch: TemplateManager::new() loads the user templates,
\* get_template looks the name up, the debate runs with its participants
CmdTemplate ==
    /\ c_pc = "start"
    /\ c_opts.source = "template"
    /\ warnings' = warnings \cup load_user_templates_warnings(TemplateEnv)
    /\ LET found == get_template(load_user_templates(TemplateEnv), c_opts.template) IN
       IF found = None
       THEN /\ c_pc' = "failed"
            /\ c_err' = Some("TemplateNotFound")
            /\ UNCHANGED debateVars
       ELSE /\ c_pc' = "debate"
            /\ DebateCall(template_to_participants(found[1]), c_opts.rounds)
            /\ UNCHANGED c_err
    /\ UNCHANGED <<execVars, fnVars, invVars, synVars, c_opts>>

\* commands/debate.rs 93, 111, 125: `.await?` on an Err of the orchestrator
CmdDebateFailed ==
    /\ c_pc = "debate"
    /\ pc = "aborted"
    /\ c_pc' = "failed"
    /\ c_err' = Some(ret[2].kind)
    /\ UNCHANGED <<debateVars, warnings, execVars, fnVars, invVars, synVars, c_opts>>

\* commands/debate.rs 132-146: the result is printed
CmdOutput ==
    /\ c_pc = "debate"
    /\ pc = "complete"
    /\ c_opts.synthesizer = None
    /\ c_pc' = "done"
    /\ UNCHANGED <<debateVars, warnings, execVars, fnVars, invVars, synVars, c_opts, c_err>>

\* --synthesize: generate_synthesis is called with the DebateResult the
\* orchestrator returned
CmdSynthesize ==
    /\ c_pc = "debate"
    /\ pc = "complete"
    /\ c_opts.synthesizer # None
    /\ c_pc' = "synthesis"
    /\ s_pc' = "get_invoker"
    /\ s_cli' = c_opts.synthesizer[1]
    /\ s_result' = Some(ret[2])
    /\ UNCHANGED <<debateVars, warnings, execVars, fnVars, invVars, c_opts, c_err,
                   s_procs, s_ret>>

\* the synthesis, or its error, is reported and the result is printed
CmdSynthesisReturned ==
    /\ c_pc = "synthesis"
    /\ s_pc = "returned"
    /\ c_pc' = "done"
    /\ UNCHANGED <<debateVars, warnings, execVars, fnVars, invVars, synVars, c_opts, c_err>>

\* ------------------------------------------------------ generate_synthesis
\* what the synthesizer backend can answer
SynResponses == {<<"t", "{", "s", "}">>, <<" ", "t", " ">>}

\* a synthesis that invokes the backend whatever is_available said
SynUnavailable_never(available) == FALSE

\* line 379: if !invoker.is_available()
SynUnavailable(available) == ~available

\* lines 372-377: get_invoker(synthesizer_cli).ok_or_else(..)?
SynGetInvoker ==
    /\ s_pc = "get_invoker"
    /\ warnings' = warnings \cup get_invoker_warnings(DebateEnv, s_cli)
    /\ IF get_invoker(DebateEnv, s_cli) = None
       THEN /\ s_pc' = "returned"
            /\ s_ret' = Some(<<"Err", "UnknownBackend">>)
       ELSE /\ s_pc' = "is_available"
            /\ UNCHANGED s_ret
    /\ UNCHANGED <<debateVars, execVars, fnVars, invVars, cmdVars, s_cli, s_result, s_procs>>

\* lines 379-384: is_available() runs command_exists, which spawns `which`
\* and waits for it (base.rs:70-76)
SynIsAvailable ==
    /\ s_pc = "is_available"
    /\ \E available \in BOOLEAN :
         /\ s_procs' = Append(s_procs, WhichProcess(s_cli, available))
         /\ IF SynUnavailable(available)
            THEN /\ s_pc' = "returned"
                 /\ s_ret' = Some(<<"Err", "Unavailable">>)
            ELSE /\ s_pc' = "invoke"
                 /\ UNCHANGED s_ret
    /\ UNCHANGED <<debateVars, warnings, execVars, fnVars, invVars, cmdVars, s_cli, s_result>>

\* lines 386-388: invoker.invoke(..) spawns the backend process
SynInvoke ==
    /\ s_pc = "invoke"
    /\ s_procs' = Append(s_procs, BackendProcess(s_cli))
    /\ s_pc' = "await"
    /\ UNCHANGED <<debateVars, warnings, execVars, fnVars, invVars, cmdVars, s_cli,
                   s_result, s_ret>>

\* lines 387-392: `.await?`, then parse_synthesis_response(&response)
SynInvokeReturns ==
    /\ s_pc = "await"
    /\ \E res \in ({<<"Ok", t>> : t \in SynResponses}
                   \cup {<<"Err", e>> : e \in InvokeErrors}) :
         s_ret' = IF res[1] = "Ok"
                  THEN Some(parse_synthesis_response(res[2]))
                  ELSE Some(res)
    /\ s_pc' = "returned"
    /\ UNCHANGED <<debateVars, warnings, execVars, fnVars, invVars, cmdVars, s_cli,
                   s_result, s_procs>>

CmdNext ==
    \/ CmdAgent
    \/ CmdDefault
    \/ CmdAgentFile
    \/ CmdParticipants
    \/ CmdTemplate
    \/ DebateNext
    \/ CmdDebateFailed
    \/ CmdOutput
    \/ CmdSynthesize
    \/ SynGetInvoker
    \/ SynIsAvailable
    \/ SynInvoke
    \/ SynInvokeReturns
    \/ CmdSynthesisReturned

\* ------------------------------------------------------ parse_participants
\* the characters of a --participants string: a letter of a CLI name, a letter
\* of a persona, the two separators and white space
ParticipantChars == {"c", "p", ",", ":", " "}

\* str::split(sep): the pieces between the separators, one piece when there
\* is no separator, the empty string included
RECURSIVE Split(_, _)
Split(str, sep) ==
    IF find(str, sep) = None THEN <<str>>
    ELSE <<SubSeq(str, 1, find(str, sep)[1] - 1)>>
         \o Split(SubSeq(str, find(str, sep)[1] + 1, Len(str)), sep)

\* a match that takes the first two parts and ignores the others
match_parts_len_ignoreExtra(parts) ==
    IF Len(parts) = 1 THEN Some(Participant_new(parts[1], None))
    ELSE Some(Participant_new(parts[1], Some(parts[2])))

\* commands/debate.rs 28-46: match parts.len(), None for the error arm
match_parts_len(parts) ==
    CASE Len(parts) = 1 -> Some(Participant_new(parts[1], None))
      [] Len(parts) = 2 -> Some(Participant_new(parts[1], Some(parts[2])))
      [] OTHER -> None

\* commands/debate.rs 21-47: the loop over participants_str.split(','), then
\* the emptiness check of 49-51
RECURSIVE ParseLoop(_, _)
ParseLoop(pieces, acc) ==
    IF pieces = <<>>
    THEN IF acc = <<>> THEN <<"Err", "AtLeastOneParticipant">> ELSE <<"Ok", acc>>
    ELSE LET part == Trim(Head(pieces)) IN
         IF part = <<>> THEN ParseLoop(Tail(pieces), acc)
         ELSE IF match_parts_len(Split(part, ":")) = None
         THEN <<"Err", "InvalidParticipantFormat">>
         ELSE ParseLoop(Tail(pieces),
                        Append(acc, match_parts_len(Split(part, ":"))[1]))

\* commands/debate.rs 18-54
parse_participants(participants_str) ==
    ParseLoop(Split(participants_str, ","), <<>>)

\* ------------------------------------------------- DebateResult as JSON
\* A String is a sequence of characters. A JSON value is <<"null">>,
\* <<"string", literal>> with the characters between the quotes of the
\* literal, <<"array", items>> or <<"object", members>> with a set of
\* <<key, value>> members.
JNull == <<"null">>

\* serde_json writes '"' and '\' escaped and every other character sampled
\* here, the multi-byte ones included, as it is
escape_str(str) ==
    Flatten([k \in 1..Len(str) |->
               IF str[k] \in {"\"", "\\"} THEN <<"\\", str[k]>> ELSE <<str[k]>>])

\* reading a literal back: None when it holds a bare '"' or ends in a '\'
RECURSIVE unescape_str(_)
unescape_str(literal) ==
    IF literal = <<>> THEN Some(<<>>)
    ELSE IF Head(literal) = "\""  THEN None
    ELSE IF Head(literal) = "\\"
    THEN IF Len(literal) < 2 \/ unescape_str(SubSeq(literal, 3, Len(literal))) = None
         THEN None
         ELSE Some(<<literal[2]>> \o unescape_str(SubSeq(literal, 3, Len(literal)))[1])
    ELSE IF unescape_str(Tail(literal)) = None THEN None
    ELSE Some(<<Head(literal)>> \o unescape_str(Tail(literal))[1])

Serialize_String(str) == <<"string", escape_str(str)>>

Deserialize_String(v) == IF v[1] = "string" THEN unescape_str(v[2]) ELSE None

\* the value of a member of an object, None when the object has no such key
Member(obj, key) ==
    IF \E m \in obj[2] : m[1] = key
    THEN Some((CHOOSE m \in obj[2] : m[1] = key)[2])
    ELSE None

\* reading a value as the named type, None for an error; defined below
RECURSIVE Deserialize(_, _)

\* a Vec: every item read as `type`, None when one of them fails
Deserialize_Vec(v, type) ==
    IF v[1] # "array" THEN None
    ELSE IF \E k \in 1..Len(v[2]) : Deserialize(type, v[2][k]) = None THEN None
    ELSE Some([k \in 1..Len(v[2]) |-> Deserialize(type, v[2][k])[1]])

\* an Option field: a missing member and null are None
Deserialize_Option(obj, key, type) ==
    IF Member(obj, key) = None \/ Member(obj, key) = Some(JNull) THEN Some(None)
    ELSE IF Deserialize(type, Member(obj, key)[1]) = None THEN None
    ELSE Some(Some(Deserialize(type, Member(obj, key)[1])[1]))

\* a required field: a missing member is an error
Deserialize_Field(obj, key, type) ==
    IF Member(obj, key) = None THEN None ELSE Deserialize(type, Member(obj, key)[1])

\* a #[serde(default)] Vec<String> field: a missing member is the empty Vec
Deserialize_DefaultStrings(obj, key) ==
    IF Member(obj, key) = None THEN Some(<<>>)
    ELSE Deserialize_Vec(Member(obj, key)[1], "String")

\* lines 169-174: RoundResponse, persona written as null when None
Serialize_RoundResponse(r) ==
    <<"object",
      { <<"cli", Serialize_String(r.cli)>>,
        <<"persona", IF r.persona = None THEN JNull
                     ELSE Serialize_String(r.persona[1])>>,
        <<"response", Serialize_String(r.response)>> }>>

Deserialize_RoundResponse(v) ==
    IF v[1] # "object" THEN None
    ELSE LET cli == Deserialize_Field(v, "cli", "String")
             persona == Deserialize_Option(v, "persona", "String")
             response == Deserialize_Field(v, "response", "String")
         IN IF cli = None \/ persona = None \/ response = None THEN None
            ELSE Some([cli |-> cli[1], persona |-> persona[1],
                       response |-> response[1]])

\* lines 185-202: Synthesis, recommendation left out when None
Serialize_Synthesis(y) ==
    <<"object",
      { <<"summary", Serialize_String(y.summary)>>,
        <<"consensus_points",
          <<"array", [k \in 1..Len(y.consensus_points) |->
                        Serialize_String(y.consensus_points[k])]>> >>,
        <<"disagreement_points",
          <<"array", [k \in 1..Len(y.disagreement_points) |->
                        Serialize_String(y.disagreement_points[k])]>> >>,
        <<"key_insights",
          <<"array", [k \in 1..Len(y.key_insights) |->
                        Serialize_String(y.key_insights[k])]>> >> }
      \cup (IF y.recommendation = None THEN {}
            ELSE {<<"recommendation", Serialize_String(y.recommendation[1])>>})>>

Deserialize_Synthesis(v) ==
    IF v[1] # "object" THEN None
    ELSE LET summary == Deserialize_Field(v, "summary", "String")
             consensus == Deserialize_DefaultStrings(v, "consensus_points")
             disagreement == Deserialize_DefaultStrings(v, "disagreement_points")
             insights == Deserialize_DefaultStrings(v, "key_insights")
             recommendation == Deserialize_Option(v, "recommendation", "String")
         IN IF \/ summary = None \/ consensus = None \/ disagreement = None
               \/ insights = None \/ recommendation = None
            THEN None
            ELSE Some([summary |-> summary[1],
                       consensus_points |-> consensus[1],
                       disagreement_points |-> disagreement[1],
                       key_insights |-> insights[1],
                       recommendation |-> recommendation[1]])

Serialize_Round(rnd) ==
    <<"array", [k \in 1..Len(rnd) |-> Serialize_RoundResponse(rnd[k])]>>

\* a DebateResult whose synthesis is never written
Serialize_DebateResult_skipSynthesis(result) ==
    <<"object",
      { <<"topic", Serialize_String(result.topic)>>,
        <<"rounds", <<"array", [k \in 1..Len(result.rounds) |->
                                 Serialize_Round(result.rounds[k])]>> >> }
      \cup (IF result.gptengage_version = None THEN {}
            ELSE {<<"gptengage_version",
                    Serialize_String(result.gptengage_version[1])>>})>>

\* lines 204-212: DebateResult, gptengage_version and synthesis left out
\* when None
Serialize_DebateResult(result) ==
    <<"object",
      { <<"topic", Serialize_String(result.topic)>>,
        <<"rounds", <<"array", [k \in 1..Len(result.rounds) |->
                                 Serialize_Round(result.rounds[k])]>> >> }
      \cup (IF result.gptengage_version = None THEN {}
            ELSE {<<"gptengage_version",
                    Serialize_String(result.gptengage_version[1])>>})
      \cup (IF result.synthesis = None THEN {}
            ELSE {<<"synthesis", Serialize_Synthesis(result.synthesis[1])>>})>>

Deserialize_DebateResult(v) ==
    IF v[1] # "object" THEN None
    ELSE LET version == Deserialize_Option(v, "gptengage_version", "String")
             topic == Deserialize_Field(v, "topic", "String")
             rnds == IF Member(v, "rounds") = None THEN None
                     ELSE Deserialize_Vec(Member(v, "rounds")[1], "Vec<RoundResponse>")
             synthesis == Deserialize_Option(v, "synthesis", "Synthesis")
         IN IF version = None \/ topic = None \/ rnds = None \/ synthesis = None
            THEN None
            ELSE Some([gptengage_version |-> version[1], topic |-> topic[1],
                       rounds |-> rnds[1], synthesis |-> synthesis[1]])

\* the strings, responses and syntheses of the sampled results: plain text,
\* the empty string, multi-byte characters, quotes and backslashes
JsonTopics == {<<>>, <<"T">>, <<"\\u{7279}", " ", "\"", "\\">>}

JsonResponse1 ==
    [cli |-> <<"c">>, persona |-> None, response |-> <<"\\u{1f389}", "\"">>]

JsonResponse2 ==
    [cli |-> <<"g">>, persona |-> Some(<<"C", "\\">>), response |-> <<"a">>]

JsonRounds ==
    { <<>>, <<JsonResponse1>>, <<JsonResponse1, JsonResponse2>>,
      <<JsonResponse2, JsonResponse1>> }

JsonSyntheses ==
    { None,
      Some([summary |-> <<"s">>, consensus_points |-> <<>>,
            disagreement_points |-> <<>>, key_insights |-> <<>>,
            recommendation |-> None]),
      Some([summary |-> <<"\\u{e9}">>, consensus_points |-> << <<"p", "\"">> >>,
            disagreement_points |-> << <<>>, <<"d">> >>, key_insights |-> <<>>,
            recommendation |-> Some(<<"r">>)]) }

JsonResults ==
    [gptengage_version : {None, Some(<<"0", ".", "1">>)},
     topic : JsonTopics,
     rounds : SeqsUpTo(JsonRounds, MaxJsonRounds),
     synthesis : JsonSyntheses]

\* --------------------------------------------------------------- sessions
\* Session names are sequences of characters; the other strings are sequences
\* of pieces of text. created_at, last_interaction and the timestamp of a
\* turn are wall-clock readings no decision depends on and are left out.
NameChars == {"s", "a", "b", "/", ".", "!", " ", "-", "_"}

is_alphanumeric(c) == c \in {"s", "a", "b"}

\* session/mod.rs 42-60
validate_name(name) ==
    IF Trim(name) = <<>> THEN <<"Err", "EmptyName">>
    ELSE IF \/ \E k \in 1..(Len(name) - 1) : name[k] = "." /\ name[k + 1] = "."
            \/ \E k \in 1..Len(name) : name[k] \in {"/", "\\"}
    THEN <<"Err", "PathSeparators">>
    ELSE IF ~ \A k \in 1..Len(name) :
                is_alphanumeric(name[k]) \/ name[k] = "-" \/ name[k] = "_"
    THEN <<"Err", "InvalidCharacters">>
    ELSE <<"Ok", name>>

Turn(role, content) == [role |-> role, content |-> content]

\* session/mod.rs 63-74
create_session(name, cli, topic) ==
    IF validate_name(name)[1] = "Err" THEN validate_name(name)
    ELSE <<"Ok", [name |-> name, cli |-> cli, topic |-> topic, turns |-> <<>>]>>

\* an add_turn that puts the new turn in front
add_turn_prepend(session, role, content) ==
    [session EXCEPT !.turns = <<Turn(role, content)>> \o @]

\* session/mod.rs 134-143
add_turn(session, role, content) ==
    [session EXCEPT !.turns = Append(@, Turn(role, content))]

\* session/mod.rs 146-170
build_prompt_with_history(session, current_prompt) ==
    IF session.turns = <<>> THEN current_prompt
    ELSE <<"[CONVERSATION HISTORY]\n">>
         \o Flatten([k \in 1..Len(session.turns) |->
                       <<IF session.turns[k].role = "user" THEN "User" ELSE "Assistant",
                         ": ">> \o session.turns[k].content \o <<"\n\n">>])
         \o <<"[/CONVERSATION HISTORY]\n\n", "[CURRENT REQUEST]\n">>
         \o current_prompt
         \o <<"\n[/CURRENT REQUEST]">>

\* session/mod.rs 8-23: Session and Turn as serde_json writes and reads them
Serialize_Turn(turn) ==
    <<"object", { <<"role", Serialize_String(<<turn.role>>)>>,
                  <<"content", Serialize_String(turn.content)>> }>>

Deserialize_Turn(v) ==
    IF v[1] # "object" THEN None
    ELSE LET role == Deserialize_Field(v, "role", "String")
             content == Deserialize_Field(v, "content", "String")
         IN IF role = None \/ content = None \/ Len(role[1]) # 1 THEN None
            ELSE Some(Turn(role[1][1], content[1]))

Deserialize(type, v) ==
    CASE type = "String" -> Deserialize_String(v)
      [] type = "RoundResponse" -> Deserialize_RoundResponse(v)
      [] type = "Vec<RoundResponse>" -> Deserialize_Vec(v, "RoundResponse")
      [] type = "Synthesis" -> Deserialize_Synthesis(v)
      [] type = "Turn" -> Deserialize_Turn(v)

Serialize_Session(session) ==
    <<"object",
      { <<"name", Serialize_String(session.name)>>,
        <<"cli", Serialize_String(<<session.cli>>)>>,
        <<"topic", Serialize_String(session.topic)>>,
        <<"turns", <<"array", [k \in 1..Len(session.turns) |->
                                 Serialize_Turn(session.turns[k])]>> >> }>>

Deserialize_Session(v) ==
    IF v[1] # "object" THEN None
    ELSE LET name == Deserialize_Field(v, "name", "String")
             cli == Deserialize_Field(v, "cli", "String")
             topic == Deserialize_Field(v, "topic", "String")
             turns == IF Member(v, "turns") = None THEN None
                      ELSE Deserialize_Vec(Member(v, "turns")[1], "Turn")
         IN IF name = None \/ cli = None \/ topic = None \/ turns = None
               \/ Len(cli[1]) # 1
            THEN None
            ELSE Some([name |-> name[1], cli |-> cli[1][1], topic |-> topic[1],
                       turns |-> turns[1]])

\* the file of a session name in the sessions directory, None when there is none
SessionFile(dir, name) == IF name \in DOMAIN dir THEN dir[name] ELSE None

\* session/mod.rs 77-86
load_session(dir, name) ==
    IF validate_name(name)[1] = "Err" THEN validate_name(name)
    ELSE IF SessionFile(dir, name) = None THEN <<"Err", "NotFound">>
    ELSE IF Deserialize_Session(SessionFile(dir, name)[1]) = None
    THEN <<"Err", "Json">>
    ELSE <<"Ok", Deserialize_Session(SessionFile(dir, name)[1])[1]>>

\* session/mod.rs 89-95: Ok with the directory after the write
save_session(dir, session) ==
    IF validate_name(session.name)[1] = "Err" THEN validate_name(session.name)
    ELSE <<"Ok", [n \in DOMAIN dir \cup {session.name} |->
                    IF n = session.name THEN Some(Serialize_Session(session))
                    ELSE dir[n]]>>

\* ------------------------------------------------------------- run_invoke
\* utils/stdin.rs 42-44
format_piped_context(content) ==
    <<"[PIPED CONTEXT]\n">> \o content \o <<"\n[/PIPED CONTEXT]">>

\* commands/invoke.rs 21-40: the prompt after the piped stdin was taken in
PromptWithStdin(args) ==
    IF args.stdin = None THEN args.prompt
    ELSE CASE args.stdin_as = "Auto" ->
                IF args.prompt = <<>> THEN args.stdin[1]
                ELSE format_piped_context(args.stdin[1]) \o <<"\n\n">> \o args.prompt
           [] args.stdin_as = "Context" ->
                format_piped_context(args.stdin[1]) \o <<"\n\n">> \o args.prompt
           [] OTHER -> args.prompt

\* the files --context-file can name, None for a file that cannot be read
ContextFileContent(file) == IF file = "ctx.txt" THEN Some(<<"F">>) ELSE None

\* the text of a piece before its first line feed, None when it has none
BeforeNewline(piece) ==
    CASE piece = "[PIPED CONTEXT]\n" -> Some(<<"[PIPED CONTEXT]">>)
      [] piece = "\n[/PIPED CONTEXT]" -> Some(<<>>)
      [] piece = "\n\n" -> Some(<<>>)
      [] OTHER -> None

\* commands/invoke.rs 109: prompt.split('\n').next()
RECURSIVE FirstLine(_)
FirstLine(str) ==
    IF str = <<>> THEN <<>>
    ELSE IF BeforeNewline(Head(str)) # None THEN BeforeNewline(Head(str))[1]
    ELSE <<Head(str)>> \o FirstLine(Tail(str))

Execs == {1, 2}

\* the first execution: any combination of the arguments
FirstArgs ==
    { a \in [cli : {"claude", "ghost"},
             prompt : {<<>>, <<"p", "\"">>},
             stdin : {None, Some(<<"in">>)},
             stdin_as : {"Auto", "Context", "Ignore"},
             session_name : {None, Some(<<"s">>), Some(<<"a", "/", "b">>)},
             topic : {None, Some(<<"t">>)},
             context_file : {None, Some("ctx.txt"), Some("missing.txt")}] :
        /\ a.stdin = None => a.stdin_as = "Auto"
        /\ a.context_file # None => a.stdin = None /\ a.topic = None }

\* the second execution: a plain prompt on the session "s"
SecondArgs ==
    [cli : {"claude"}, prompt : {<<"q">>}, stdin : {None}, stdin_as : {"Auto"},
     session_name : {Some(<<"s">>)}, topic : {None}, context_file : {None}]

\* the sessions a directory can hold before the executions start: none, or
\* the session "s" with some exchanges
StoredSession(k) ==
    [name |-> <<"s">>, cli |-> "claude", topic |-> <<"t0">>,
     turns |-> Flatten([j \in 1..k |-> <<Turn("user", <<"u", "\\">>),
                                        Turn("assistant", <<"v">>)>>])]

InitialStores ==
    {[n \in {<<"s">>} |-> None]}
    \cup {[n \in {<<"s">>} |-> Some(Serialize_Session(StoredSession(k)))] :
            k \in 0..MaxStoredExchanges}

InvStart ==
    /\ store \in InitialStores
    /\ i_args \in {[e \in Execs |-> IF e = 1 THEN a ELSE b] :
                      a \in FirstArgs, b \in SecondArgs}
    /\ i_pc \in [Execs -> {"off", "start"}]
    /\ i_pc[1] = "start"
    /\ i_prompt = [e \in Execs |-> i_args[e].prompt]
    /\ i_session = [e \in Execs |-> None]
    /\ i_full_prompt = [e \in Execs |-> <<>>]
    /\ i_response = [e \in Execs |-> None]
    /\ i_err = [e \in Execs |-> None]
    /\ warnings = {}

InvOff ==
    /\ store = <<>>
    /\ i_pc = <<>>
    /\ i_args = <<>>
    /\ i_prompt = <<>>
    /\ i_session = <<>>
    /\ i_full_prompt = <<>>
    /\ i_response = <<>>
    /\ i_err = <<>>

InvFail(e, kind) ==
    /\ i_pc' = [i_pc EXCEPT ![e] = "failed"]
    /\ i_err' = [i_err EXCEPT ![e] = Some(kind)]

\* commands/invoke.rs 20-59: the stdin, the empty-prompt check, the context
\* file, the SessionManager
InvPrompt(e) ==
    /\ i_pc[e] = "start"
    /\ LET prompt == PromptWithStdin(i_args[e])
           file == i_args[e].context_file
       IN IF prompt = <<>>
          THEN InvFail(e, "PromptRequired") /\ UNCHANGED i_prompt
          ELSE IF file # None /\ ContextFileContent(file[1]) = None
          THEN InvFail(e, "ContextFile") /\ UNCHANGED i_prompt
          ELSE /\ i_prompt' = [i_prompt EXCEPT ![e] =
                                 IF file = None THEN prompt
                                 ELSE <<"File: ", file[1], "\n\n">>
                                      \o ContextFileContent(file[1])[1]
                                      \o <<"\n\n">> \o prompt]
               /\ i_pc' = [i_pc EXCEPT ![e] = "load"]
               /\ UNCHANGED i_err
    /\ UNCHANGED <<debateVars, warnings, execVars, fnVars, cmdVars, synVars,
                   store, i_args, i_session, i_full_prompt, i_response>>

\* commands/invoke.rs 61-82: load_session(name).await.ok(), the full prompt
InvLoad(e) ==
    /\ i_pc[e] = "load"
    /\ LET name == i_args[e].session_name
           session == IF name # None /\ load_session(store, name[1])[1] = "Ok"
                      THEN Some(load_session(store, name[1])[2])
                      ELSE None
       IN /\ i_session' = [i_session EXCEPT ![e] = session]
          /\ i_full_prompt' = [i_full_prompt EXCEPT ![e] =
                                 IF session # None
                                 THEN build_prompt_with_history(session[1], i_prompt[e])
                                 ELSE i_prompt[e]]
    /\ i_pc' = [i_pc EXCEPT ![e] = "get_invoker"]
    /\ UNCHANGED <<debateVars, warnings, execVars, fnVars, cmdVars, synVars,
                   store, i_args, i_prompt, i_response, i_err>>

\* commands/invoke.rs 84-90: get_invoker(&cli).ok_or_else(..)?
InvGetInvoker(e) ==
    /\ i_pc[e] = "get_invoker"
    /\ warnings' = warnings \cup get_invoker_warnings(DebateEnv, i_args[e].cli)
    /\ IF get_invoker(DebateEnv, i_args[e].cli) = None
       THEN InvFail(e, "UnknownCli")
       ELSE /\ i_pc' = [i_pc EXCEPT ![e] = "is_available"]
            /\ UNCHANGED i_err
    /\ UNCHANGED <<debateVars, execVars, fnVars, cmdVars, synVars,
                   store, i_args, i_prompt, i_session, i_full_prompt, i_response>>

\* commands/invoke.rs 92-98
InvIsAvailable(e) ==
    /\ i_pc[e] = "is_available"
    /\ \E available \in BOOLEAN :
         IF ~available
         THEN InvFail(e, "NotFoundInPath")
         ELSE /\ i_pc' = [i_pc EXCEPT ![e] = "invoke"]
              /\ UNCHANGED i_err
    /\ UNCHANGED <<debateVars, warnings, execVars, fnVars, cmdVars, synVars,
                   store, i_args, i_prompt, i_session, i_full_prompt, i_response>>

\* commands/invoke.rs 100-105: invoker.invoke(&full_prompt, ..).await?
InvInvokeReturns(e) ==
    /\ i_pc[e] = "invoke"
    /\ \E res \in ({<<"Ok", <<t>>>> : t \in Texts} \cup {<<"Err", k>> : k \in InvokeErrors}) :
         IF res[1] = "Err"
         THEN InvFail(e, res[2]) /\ UNCHANGED i_response
         ELSE /\ i_response' = [i_response EXCEPT ![e] = Some(res[2])]
              /\ i_pc' = [i_pc EXCEPT ![e] = "update"]
              /\ UNCHANGED i_err
    /\ UNCHANGED <<debateVars, warnings, execVars, fnVars, cmdVars, synVars,
                   store, i_args, i_prompt, i_session, i_full_prompt>>

\* commands/invoke.rs 108-113: the loaded session, or a new one
SessionToUpdate(e) ==
    IF i_session[e] # None THEN <<"Ok", i_session[e][1]>>
    ELSE create_session(i_args[e].session_name[1], i_args[e].cli,
                        IF i_args[e].topic # None THEN i_args[e].topic[1]
                        ELSE FirstLine(i_prompt[e]))

\* commands/invoke.rs 115-117: the user turn, then the assistant turn
WithTurns(session, e) ==
    add_turn(add_turn(session, "user", i_prompt[e]), "assistant", i_response[e][1])

\* commands/invoke.rs 107-124: the session update and Ok(())
InvUpdate(e) ==
    /\ i_pc[e] = "update"
    /\ IF i_args[e].session_name = None
       THEN /\ i_pc' = [i_pc EXCEPT ![e] = "done"]
            /\ UNCHANGED <<store, i_err>>
       ELSE IF SessionToUpdate(e)[1] = "Err"
       THEN InvFail(e, SessionToUpdate(e)[2]) /\ UNCHANGED store
       ELSE LET saved == save_session(store, WithTurns(SessionToUpdate(e)[2], e)) IN
            IF saved[1] = "Err"
            THEN InvFail(e, saved[2]) /\ UNCHANGED store
            ELSE /\ store' = saved[2]
                 /\ i_pc' = [i_pc EXCEPT ![e] = "done"]
                 /\ UNCHANGED i_err
    /\ UNCHANGED <<debateVars, warnings, execVars, fnVars, cmdVars, synVars,
                   i_args, i_prompt, i_session, i_full_prompt, i_response>>

InvNext ==
    \E e \in Execs :
      \/ InvPrompt(e)
      \/ InvLoad(e)
      \/ InvGetInvoker(e)
      \/ InvIsAvailable(e)
      \/ InvInvokeReturns(e)
      \/ InvUpdate(e)

\* ------------------------------------------------------- function calls
\* One call of a function of the program: Init draws the function and its
\* arguments, the action of the function applies it.
FnOff ==
    /\ f_pc = "off"
    /\ f_call = [op |-> "none"]
    /\ f_ret = None

CmdOff ==
    /\ c_pc = "off"
    /\ c_opts = [source |-> "none"]
    /\ c_err = None

SynOff ==
    /\ s_pc = "off"
    /\ s_cli = ""
    /\ s_result = None
    /\ s_procs = <<>>
    /\ s_ret = None

\* the names asked for
CliNames ==
    {"claude", "Claude", "CODEX", "Gemini", "myplug", "MyPlug", "MYPLUG",
     "tool", "ghost", ""}

\* HOME not set, or any plugins directory over the pool
Environments == {None} \cup {Some(files) : files \in SUBSET PluginFilePool}

ResolutionCalls ==
    [op : {"get_invoker", "is_valid_cli"}, env : Environments, name : CliNames]

\* loading one file of the plugins directory, validating one plugin file
ValidationCalls ==
    [op : {"load_plugin_file", "validate_plugin_file"}, file : PluginFilePool]

\* the [invoke] section of a plugin file: prompt_arg is optional in every mode
InvokeConfigs ==
    {PluginConfig("tool", "run", mode, prompt_arg) :
        mode \in {"Stdin", "Arg", "ArgLast"},
        prompt_arg \in {None, Some("-p")}}

InvokeCalls ==
    [op : {"PluginInvoker_invoke"}, config : InvokeConfigs,
     prompt : {"hello"}, access_mode : {"ReadOnly", "WorkspaceWrite"}]

\* agent definitions with no, one and two fields of expertise, with and
\* without a communication style
PromptAgents ==
    [cli : {"claude"}, persona : {"critic"},
     instructions : {"Challenge every claim."},
     expertise : {<<>>, <<"security">>, <<"security", "testing">>},
     communication_style : {None, Some("terse")}]

\* participants with and without persona, with and without agent definition
PromptParticipants ==
    [cli : {"claude"}, persona : {None, Some("ceo")},
     agent_definition : {None} \cup {Some(a) : a \in PromptAgents}]

PromptCalls ==
    [op : {"build_prompt_with_persona"}, p : PromptParticipants,
     base_prompt : {<<>>, <<"Discuss the topic">>, BaseContext(Topic, 1, <<>>)}]

\* every response of at most MaxResponseLen characters
ParseCalls ==
    [op : {"parse_synthesis_response"},
     response : SeqsUpTo(ResponseChars, MaxResponseLen)]

LoadCalls ==
    [op : {"AgentFile_load"},
     content : {None} \cup {Some(file) : file \in AgentFiles}]

ParticipantsCalls ==
    [op : {"parse_participants"},
     participants_str : SeqsUpTo(ParticipantChars, MaxParticipantsStr)]

JsonCalls == [op : {"DebateResult_json"}, result : JsonResults]

FnCalls ==
    ResolutionCalls \cup ValidationCalls \cup InvokeCalls \cup PromptCalls
    \cup ParseCalls \cup LoadCalls \cup ParticipantsCalls \cup JsonCalls

FnStart ==
    /\ f_pc = "call"
    /\ f_call \in FnCalls
    /\ f_ret = None

FnReturn(op, value) ==
    /\ f_pc = "call"
    /\ f_call.op = op
    /\ f_pc' = "returned"
    /\ f_ret' = Some(value)
    /\ UNCHANGED <<debateVars, warnings, execVars, cmdVars, invVars, synVars, f_call>>

Call_get_invoker ==
    FnReturn("get_invoker", get_invoker(f_call.env, f_call.name))

Call_is_valid_cli ==
    FnReturn("is_valid_cli", is_valid_cli(f_call.env, f_call.name))

Call_load_plugin_file ==
    FnReturn("load_plugin_file", load_plugin_file(f_call.file))

Call_validate_plugin_file ==
    FnReturn("validate_plugin_file", validate_plugin_file(f_call.file))

Call_PluginInvoker_invoke ==
    FnReturn("PluginInvoker_invoke",
             PluginInvoker_invoke(f_call.config, f_call.prompt, f_call.access_mode))

Call_build_prompt_with_persona ==
    FnReturn("build_prompt_with_persona",
             build_prompt_with_persona(f_call.p, f_call.base_prompt))

Call_parse_synthesis_response ==
    FnReturn("parse_synthesis_response", parse_synthesis_response(f_call.response))

Call_AgentFile_load ==
    FnReturn("AgentFile_load", AgentFile_load(f_call.content))

Call_parse_participants ==
    FnReturn("parse_participants", parse_participants(f_call.participants_str))

\* serde_json::to_string(&result), then serde_json::from_str of the text
Call_DebateResult_json ==
    FnReturn("DebateResult_json",
             [json |-> Serialize_DebateResult(f_call.result),
              deserialized |->
                  Deserialize_DebateResult(Serialize_DebateResult(f_call.result))])

FnNext ==
    \/ Call_DebateResult_json
    \/ Call_parse_participants
    \/ Call_AgentFile_load
    \/ Call_PluginInvoker_invoke
    \/ Call_parse_synthesis_response
    \/ Call_build_prompt_with_persona
    \/ Call_get_invoker
    \/ Call_is_valid_cli
    \/ Call_load_plugin_file
    \/ Call_validate_plugin_file

\* ------------------------------------------------------------ specifications
\* Spec: one call of run_debate_with_participants, everything else idle.
\* SpecExec: one call of execute_command.
\* SpecFn: one call of a function.
\* SpecCmd: one run of the debate command, with its debate and its synthesis.
Init == DebateStart /\ ExecOff /\ FnOff /\ CmdOff /\ SynOff /\ InvOff

Next == DebateNext

Spec == Init /\ [][Next]_vars

ExecInit == ExecStart /\ DebateOff /\ FnOff /\ CmdOff /\ SynOff /\ InvOff

SpecExec == ExecInit /\ [][ExecNext]_vars

FnInit == FnStart /\ DebateOff /\ ExecOff /\ CmdOff /\ SynOff /\ InvOff

SpecFn == FnInit /\ [][FnNext]_vars

\* the debate under the scheduling of the tokio runtime: the task running
\* run_debate_with_participants is polled whenever it can proceed, so is every
\* spawned task, and every invocation completes or hits its timeout
LiveInit ==
    /\ DebateStartWithin(LiveMaxParticipants, LiveMaxRounds, LiveMaxInvocations)
    /\ ExecOff /\ FnOff /\ CmdOff /\ SynOff /\ InvOff

Fairness ==
    /\ WF_vars(Entry \/ LoopHead \/ Spawn \/ JoinAll)
    /\ \A i \in 1..LiveMaxParticipants :
         /\ WF_vars(i \in Idx /\ (TaskGetInvoker(i) \/ TaskIsAvailable(i)))
         /\ WF_vars(i \in Idx /\ TaskInvokeReturns(i))

SpecLive == LiveInit /\ [][DebateNext]_vars /\ Fairness

CmdInit == CmdStart /\ DebateOff /\ ExecOff /\ FnOff /\ SynOff /\ InvOff

SpecCmd == CmdInit /\ [][CmdNext]_vars

\* SpecInvoke: up to two executions of run_invoke, each a process of its
\* own, over one sessions directory.
InvInit == InvStart /\ DebateOff /\ ExecOff /\ FnOff /\ CmdOff /\ SynOff

SpecInvoke == InvInit /\ [][InvNext]_vars


\* ------------------------------------------------------ debate properties
DiagKinds == {"unknown", "unavailable", "failed"}

\* participant i wrote a skip or failure diagnostic in round r
Abstained(r, i) == \E k \in DiagKinds : <<r, i, k>> \in diag

Abstainers(r) == {i \in Idx : Abstained(r, i)}

\* the orchestrator took its decision on round r
Decided(r) == round > r \/ (round = r /\ pc \in {"aborted", "complete"})

FromParticipant(resp, p) == resp.cli = p.cli /\ resp.persona = p.persona

\* the k-th smallest member of a set of indices
Nth(S, k) == CHOOSE i \in S : Cardinality({j \in S : j <= i}) = k

Returned == pc \in {"complete", "aborted"}

\* C1: a debate of N >= 1 rounds over a non-empty participant list in which
\* nobody was skipped and no invocation failed returns Ok with exactly N
\* rounds, and round k holds one response per participant, the i-th from the
\* i-th participant.
C1_FullDebate ==
    (Returned /\ participants # <<>> /\ num_rounds >= 1 /\ diag = {})
    => /\ pc = "complete"
       /\ ret[1] = "Ok"
       /\ Len(ret[2].rounds) = num_rounds
       /\ \A k \in 1..Len(ret[2].rounds) :
            /\ Len(ret[2].rounds[k]) = Len(participants)
            /\ \A i \in 1..Len(ret[2].rounds[k]) :
                 FromParticipant(ret[2].rounds[k][i], participants[i])

C1_Witness ==
    /\ pc = "complete"
    /\ diag = {}
    /\ Len(participants) = 2
    /\ num_rounds = 3
    /\ Len(rounds) = 3

\* C2: once every participant of round r has abstained, the only thing the
\* orchestrator does is fail with the no-responders error naming r: round r
\* is not appended, the loop does not go on, and the value returned is the
\* error, not a DebateResult holding the r-1 rounds completed before.
C2_EmptyRoundAborts ==
    \A r \in 1..num_rounds :
      (participants # <<>> /\ Abstainers(r) = Idx)
      => /\ round = r
         /\ Len(rounds) = r - 1
         /\ \/ pc = "joining" /\ ret = None
            \/ /\ pc = "aborted"
               /\ ret = <<"Err", [kind |-> "NoResponders", round |-> r]>>
               /\ ~ENABLED LoopHead
               /\ ~ENABLED Spawn

C2_Witness ==
    /\ pc = "aborted"
    /\ round = 2
    /\ Len(rounds) = 1
    /\ Len(participants) = 2
    /\ Abstainers(2) = Idx
    /\ ret[1] = "Err"

\* C3: a round in which some participant abstained and some other did not
\* is appended, holds exactly the participants that did not abstain, and is
\* never the reason of an error: the caller sees no error about that round,
\* and the only error it can see at all is the no-responders error.
C3_AbstainIsNotAnError ==
    \A r \in 1..num_rounds :
      Decided(r) =>
        LET present == Idx \ Abstainers(r)
        IN  (present # Idx /\ present # {})
            => /\ Len(rounds) >= r
               /\ Len(rounds[r]) = Cardinality(present)
               /\ \A k \in 1..Len(rounds[r]) :
                    FromParticipant(rounds[r][k], participants[Nth(present, k)])
               /\ ret # None /\ ret[1] = "Err"
                    => ret[2].kind = "NoResponders" /\ ret[2].round # r

C3_Witness ==
    /\ pc = "complete"
    /\ Len(rounds) = 2
    /\ <<1, 1, "failed">> \in diag
    /\ <<2, 2, "unavailable">> \in diag
    /\ ret[1] = "Ok"

RunningTasks == {i \in Idx : tpc[i] \in {"get_invoker", "is_available", "invoke"}}

\* C4: whenever the orchestrator is past the join of a round (it decided
\* that the round is empty, it is at the head of the loop about to start the
\* next round, or it returned), no task is still running; and every task
\* that is running was launched for the current round.
C4_RoundBarrier ==
    /\ pc \in {"entry", "loop", "aborted", "complete"} => RunningTasks = {}
    /\ pc \in {"spawning", "joining"} =>
         /\ RunningTasks \subseteq Range(tasks)
         /\ Len(rounds) = round - 1

\* a task failed first, the join still waited for its sibling, which responded
C4_Witness ==
    /\ pc = "loop"
    /\ Len(finishOrder) = 2
    /\ slot[finishOrder[1]] = <<None>>
    /\ slot[finishOrder[2]] # <<None>>
    /\ Len(rounds) = round - 1
    /\ round = 2

InvokeOk(i) == inv[i] # None /\ inv[i][1][1] = "Ok"

\* the round the tasks of the model belong to was joined
Joined == pc \in {"loop", "complete", "aborted"} /\ tasks # <<>>

\* C5: after the join of a round, every participant whose own invocation
\* returned Ok has its response in the appended round, and the round holds
\* as many responses as invocations succeeded, whatever the siblings did and
\* in whatever order the tasks finished.
C5_SiblingsIndependent ==
    Joined =>
      /\ \A i \in Idx : InvokeOk(i) =>
           /\ pc # "aborted"
           /\ \E k \in 1..Len(rounds[Len(rounds)]) :
                rounds[Len(rounds)][k] = RoundResponse(participants[i], inv[i][1][2])
      /\ pc # "aborted" =>
           Len(rounds[Len(rounds)]) = Cardinality({i \in Idx : InvokeOk(i)})

\* the first task timed out before its sibling answered
C5_Witness ==
    /\ pc = "loop"
    /\ Len(participants) = 2
    /\ finishOrder = <<1, 2>>
    /\ inv[1] = Some(<<"Err", "Timeout">>)
    /\ InvokeOk(2)
    /\ Len(rounds[Len(rounds)]) = 1

\* C6: the appended round is the sequence of the responses of the
\* participants whose task produced one, in participant-list order, each with
\* the backend, the persona and the text of its producer; the completion
\* order of the tasks does not show in it.
C6_ParticipantOrder ==
    (Joined /\ pc # "aborted") =>
      LET last == rounds[Len(rounds)]
          responders == {i \in Idx : slot[i] # <<None>> /\ slot[i] # <<>>}
      IN /\ Len(last) = Cardinality(responders)
         /\ \A k \in 1..Len(last) :
              LET i == Nth(responders, k) IN
              /\ last[k].cli = participants[i].cli
              /\ last[k].persona = participants[i].persona
              /\ inv[i] = Some(<<"Ok", last[k].response>>)

\* the second task finished first, with another text than the first
C6_Witness ==
    /\ pc = "loop"
    /\ finishOrder = <<2, 1>>
    /\ participants[1] # participants[2]
    /\ InvokeOk(1) /\ InvokeOk(2)
    /\ inv[1] # inv[2]
    /\ rounds[Len(rounds)][1] = RoundResponse(participants[1], inv[1][1][2])

\* the positions of the response texts in a context
TextPositions(c) == {q \in 1..Len(c) : c[q] \in Texts}

\* the k-th response text of context c is that of resp, labelled with its
\* display name
EntryAt(c, k, resp) ==
    LET q == Nth(TextPositions(c), k)
        dn == display_name(resp)
    IN /\ c[q] = resp.response
       /\ q - 1 - Len(dn) >= 1
       /\ c[q - 1] = ": "
       /\ SubSeq(c, q - 1 - Len(dn), q - 2) = dn
       /\ c[q + 1] = "\n\n"

\* C7: the context of round 1 holds no previous response; the context of a
\* round r > 1 holds, after the header "Previous responses:", one labelled
\* entry per response appended for round r-1, in the stored order, and no
\* other response text.
C7_ContextOfPreviousRound ==
    pc \in {"spawning", "joining"} =>
      /\ round = 1 =>
           /\ TextPositions(base_context) = {}
           /\ "Previous responses:\n" \notin Range(base_context)
      /\ round > 1 =>
           /\ Len(rounds) = round - 1
           /\ "Previous responses:\n" \in Range(base_context)
           /\ Cardinality(TextPositions(base_context)) = Len(rounds[round - 1])
           /\ \A k \in 1..Len(rounds[round - 1]) :
                EntryAt(base_context, k, rounds[round - 1][k])

\* round 3 is being set up and rounds 1 and 2 differ
C7_Witness ==
    /\ pc = "spawning"
    /\ round = 3
    /\ Len(rounds) = 2
    /\ Len(rounds[2]) = 2
    /\ rounds[1] # rounds[2]
    /\ rounds[2][1].response # rounds[2][2].response

\* ------------------------------------------------- executor properties
\* the child is still running although more than the timeout has passed
\* since the call
ChildOverdue == child.state = "running" /\ now > x_timeout

\* C8: execute_command is never still running later than timeout + Slack
\* after the call, and when it returned with the child still running after
\* more than the timeout, it returned the timeout error.
C8_HardTimeout ==
    /\ x_pc \in {"write", "select"} => now <= x_timeout + Slack
    /\ (x_pc = "returned" /\ ChildOverdue) => x_ret.kind = "Timeout"

\* C9: execute_command never returns leaving a running child that it neither
\* awaited to completion nor sent a termination signal.
C9_NoLeakedChild ==
    (x_pc = "returned" /\ child.state = "running")
    => (child.awaited \/ child.signalled)

\* the child exited while the timer was armed and not yet expired
CompletedBeforeExpiry ==
    /\ x_armed >= 0
    /\ child.state = "exited"
    /\ child.exit_time < x_armed + x_timeout

C11_EmptyListFailsAtOnce ==
    participants = <<>> =>
        /\ pc \in {"entry", "aborted"}
        /\ round = 0
        /\ rounds = <<>>
        /\ tasks = <<>>
        /\ base_context = <<>>
        /\ diag = {}
        /\ (pc = "entry" => ret = None)
        /\ (pc = "aborted" =>
              ret = <<"Err", [kind |-> "NoParticipants", round |-> 0]>>)

\* the empty list was rejected although rounds were requested
C11_Witness ==
    /\ participants = <<>>
    /\ num_rounds >= 2
    /\ pc = "aborted"
    /\ ret = <<"Err", [kind |-> "NoParticipants", round |-> 0]>>

\* ---------------------------------------------------------------------- C12
Returned_fn(op) == f_pc = "returned" /\ f_call.op = op

\* the plugin configs a directory offers under a name: the files that parse
\* and pass validate_plugin
Loadable(env, name) ==
    IF env = None THEN {}
    ELSE {f[1] : f \in {g \in env[1] : g # None /\ validate_plugin(g[1]) = "Ok"
                                       /\ g[1].name = name}}

IsBuiltinName(name) ==
    name \in {"claude", "Claude", "CODEX", "Gemini"}

\* C12: get_invoker(name) returns the built-in invoker when name is claude,
\* codex or gemini in any letter case, even when the plugins directory holds a
\* descriptor of that name; otherwise the invoker of the loaded plugin whose
\* name equals name exactly; otherwise nothing. It never offers more than one
\* invoker, and is_valid_cli(name) holds exactly when get_invoker(name) returns
\* an invoker.
C12_Resolution ==
    /\ Returned_fn("get_invoker") =>
         LET r == f_ret[1]
             name == f_call.name
             env == f_call.env
         IN /\ Len(r) <= 1
            /\ IsBuiltinName(name) =>
                 /\ r # None
                 /\ r[1].kind = "builtin"
                 /\ r[1].name = ToLowercase(name)
            /\ (~IsBuiltinName(name) /\ Loadable(env, name) # {}) =>
                 /\ r # None
                 /\ r[1].kind = "plugin"
                 /\ r[1].config \in Loadable(env, name)
                 /\ r[1].config.name = name
            /\ (~IsBuiltinName(name) /\ Loadable(env, name) = {}) => r = None
            /\ is_valid_cli(env, name) <=> (r # None)
    /\ Returned_fn("is_valid_cli") =>
         (f_ret[1] <=> get_invoker(f_call.env, f_call.name) # None)

\* "Claude" was asked for while the directory holds a descriptor named
\* "Claude": the built-in invoker came back
C12_Witness ==
    /\ Returned_fn("get_invoker")
    /\ f_call.name = "Claude"
    /\ f_call.env # None
    /\ \E f \in f_call.env[1] : f # None /\ f[1].name = "Claude"
    /\ f_ret[1] = Some([kind |-> "builtin", name |-> "claude"])

\* ---------------------------------------------------------------------- C13
\* a descriptor the claim calls invalid
InvalidDescriptor(c) ==
    \/ c.name = ""
    \/ c.command = ""
    \/ ToLowercase(c.name) \in {"claude", "codex", "gemini"}

\* C13: every validation path of a plugin descriptor, loading it from the
\* plugins directory as well as validating a single plugin file, rejects a
\* descriptor whose name is empty, whose command is empty, or whose name is a
\* built-in id in any letter case.
C13_EveryPathRejects ==
    /\ (Returned_fn("load_plugin_file") /\ f_call.file # None
        /\ InvalidDescriptor(f_call.file[1])) => f_ret[1] # "Ok"
    /\ (Returned_fn("validate_plugin_file") /\ f_call.file # None
        /\ InvalidDescriptor(f_call.file[1])) => f_ret[1][1] = "Err"

\* ---------------------------------------------------------------------- C14
\* C14: PluginInvoker::invoke runs the command with base_args followed by
\* readonly_args or write_args, then: Stdin, no further argument and the
\* prompt as stdin; Arg, the prompt_arg flag followed by the prompt and empty
\* stdin; ArgLast, the prompt as the final argument and empty stdin. In Arg
\* mode the prompt is never an argument without the flag right before it.
C14_PromptPlacement ==
    Returned_fn("PluginInvoker_invoke") =>
        LET c == f_call.config
            r == f_ret[1]
            n == Len(r.args)
            access == IF f_call.access_mode = "ReadOnly"
                      THEN c.readonly_args ELSE c.write_args
            lead == c.base_args \o access
        IN /\ r.cmd = c.command
           /\ SubSeq(r.args, 1, Len(lead)) = lead
           /\ c.prompt_mode = "Stdin" =>
                r.args = lead /\ r.input = f_call.prompt
           /\ c.prompt_mode = "Arg" =>
                /\ r.input = ""
                /\ n = Len(lead) + 2
                /\ r.args[n] = f_call.prompt
                /\ c.prompt_arg # None
                /\ r.args[n - 1] = c.prompt_arg[1]
           /\ c.prompt_mode = "ArgLast" =>
                r.args = lead \o <<f_call.prompt>> /\ r.input = ""

\* ---------------------------------------------------------------------- C15
\* s[k], s[k+1] = a, b for some k
Adjacent(s, a, b) == \E k \in 1..(Len(s) - 1) : s[k] = a /\ s[k + 1] = b

\* C15: build_prompt_with_persona returns an agent-context block (role,
\* instructions, expertise only when non-empty, communication style only when
\* present) followed by the base context when the participant carries an
\* AgentDefinition, even if a persona is set too; a role-context block naming
\* the persona followed by the base context when only a persona is present;
\* exactly the base context when neither is. The base context is always the
\* unmodified suffix of the prompt.
C15_PromptShape ==
    Returned_fn("build_prompt_with_persona") =>
        LET r == f_ret[1]
            base == f_call.base_prompt
            p == f_call.p
            n == Len(r) - Len(base)
            pre == SubSeq(r, 1, n)
        IN /\ n >= 0
           /\ SubSeq(r, n + 1, Len(r)) = base
           /\ p.agent_definition # None =>
                LET a == p.agent_definition[1] IN
                /\ pre[1] = "[AGENT CONTEXT]\n"
                /\ pre[n] = "[/AGENT CONTEXT]\n\n"
                /\ Adjacent(pre, "Role: ", a.persona)
                /\ Adjacent(pre, "Instructions: ", a.instructions)
                /\ ("Expertise: " \in Range(pre)) <=> (a.expertise # <<>>)
                /\ a.expertise # <<>> =>
                     /\ Adjacent(pre, "Expertise: ", a.expertise[1])
                     /\ Range(a.expertise) \subseteq Range(pre)
                /\ ("Communication Style: " \in Range(pre))
                     <=> (a.communication_style # None)
                /\ a.communication_style # None =>
                     Adjacent(pre, "Communication Style: ", a.communication_style[1])
                /\ \A k \in 1..n : pre[k] # "ceo"
           /\ (p.agent_definition = None /\ p.persona # None) =>
                /\ n = 3
                /\ pre[1] = "[ROLE CONTEXT]\nYou are participating in this debate as a "
                /\ pre[2] = p.persona[1]
           /\ (p.agent_definition = None /\ p.persona = None) => r = base

\* an agent definition with expertise and without communication style, on a
\* participant that has a persona as well
C15_Witness ==
    /\ Returned_fn("build_prompt_with_persona")
    /\ f_call.p.agent_definition # None
    /\ f_call.p.persona # None
    /\ f_call.p.agent_definition[1].expertise # <<>>
    /\ f_call.p.agent_definition[1].communication_style = None
    /\ f_call.base_prompt # <<>>
    /\ f_ret[1][1] = "[AGENT CONTEXT]\n"

\* ---------------------------------------------------------------------- C16
\* the text from the first "{" to the last "}", empty when there is none
BraceSpan(resp) ==
    LET opens == {k \in 1..Len(resp) : resp[k] = "{"}
        closes == {k \in 1..Len(resp) : resp[k] = "}"}
    IN IF opens = {} \/ closes = {} THEN <<>>
       ELSE SubSeq(resp, CHOOSE k \in opens : \A j \in opens : k <= j,
                         CHOOSE k \in closes : \A j \in closes : k >= j)

\* C16: parse_synthesis_response never returns an error. When the text from
\* the first "{" to the last "}" decodes as a Synthesis it returns that
\* Synthesis; for every other response (no braces, one brace, braces in the
\* wrong order, malformed JSON between them) it returns a Synthesis whose
\* summary is the trimmed response, with empty lists and no recommendation.
C16_ParseNeverFails ==
    Returned_fn("parse_synthesis_response") =>
        LET resp == f_call.response
            r == f_ret[1]
        IN /\ r[1] = "Ok"
           /\ from_str_Synthesis(BraceSpan(resp)) # None =>
                r[2] = from_str_Synthesis(BraceSpan(resp))[1]
           /\ from_str_Synthesis(BraceSpan(resp)) = None =>
                /\ r[2].summary = Trim(resp)
                /\ r[2].consensus_points = <<>>
                /\ r[2].disagreement_points = <<>>
                /\ r[2].key_insights = <<>>
                /\ r[2].recommendation = None
                /\ r[2].summary = <<>> \/
                     (Head(r[2].summary) # " " /\ r[2].summary[Len(r[2].summary)] # " ")

\* a JSON object wrapped in prose was decoded
C16_Witness ==
    /\ Returned_fn("parse_synthesis_response")
    /\ f_call.response = <<"t", "{", "s", "}", "t">>
    /\ f_ret[1][2].summary = <<"ok">>

\* ---------------------------------------------------------------------- C19
\* str.chars().count(), the length in characters
CharCount(str) ==
    CASE str = "" -> 0
      [] str = " " -> 1
      [] str = "   " -> 3
      [] str = "short" -> 5
      [] str = "Be concise" -> 10
      [] str = "S\\u{e9} breve." -> 9
      [] str = "\\u{65e5}\\u{672c}\\u{8a9e}\\u{3067}\\u{7b54}\\u{3048}\\u{3066}" -> 7
      [] str = "Challenge every claim." -> 22
      [] str = "claude" -> 6
      [] str = "myplug" -> 6
      [] str = "critic" -> 6

\* C19: AgentFile::load succeeds only if the schema version is "1.0", the
\* participant list is non-empty and every participant has a non-blank cli, a
\* non-blank persona and non-blank instructions of at least 10 characters;
\* in every other case it fails and yields no participants.
C19_LoadOnlyValidFiles ==
    Returned_fn("AgentFile_load") /\ f_ret[1][1] = "Ok" =>
        /\ f_call.content # None
        /\ f_call.content[1].schema_version = "1.0"
        /\ f_call.content[1].participants # <<>>
        /\ \A k \in 1..Len(f_call.content[1].participants) :
             LET a == f_call.content[1].participants[k] IN
             /\ ~TrimIsEmpty(a.cli)
             /\ ~TrimIsEmpty(a.persona)
             /\ ~TrimIsEmpty(a.instructions)
             /\ CharCount(a.instructions) >= 10

\* ---------------------------------------------------------------------- C17
BackendProcesses == {k \in 1..Len(s_procs) : s_procs[k].kind = "backend"}

SynFailedWith(kind) == s_ret = Some(<<"Err", kind>>)

\* the DebateResult handed to generate_synthesis is the one the debate returned
SynResultUnchanged == s_pc # "off" => s_result = Some(ret[2])

\* C17 as stated: generate_synthesis invokes at most one backend, at most
\* once, and only after that backend resolved and reported available; for an
\* unknown synthesizer it returns the unknown-backend error and for an
\* unavailable one the unavailable error, in both cases without spawning any
\* process; and it leaves the DebateResult unchanged.
C17_NoProcessOnError ==
    /\ Cardinality(BackendProcesses) <= 1
    /\ SynFailedWith("UnknownBackend") => s_procs = <<>>
    /\ SynFailedWith("Unavailable") => s_procs = <<>>
    /\ SynResultUnchanged

\* C17, amended: as above, but for an unavailable synthesizer no backend
\* process is spawned; the `which` lookup of is_available is the only
\* process of that call.
C17_NoBackendOnError ==
    /\ Cardinality(BackendProcesses) <= 1
    /\ \A k \in BackendProcesses :
         /\ s_procs[k] = BackendProcess(s_cli)
         /\ get_invoker(DebateEnv, s_cli) # None
         /\ k = 2
         /\ s_procs[1] = WhichProcess(s_cli, TRUE)
         /\ ~SynFailedWith("UnknownBackend")
         /\ ~SynFailedWith("Unavailable")
    /\ SynFailedWith("UnknownBackend") =>
         s_procs = <<>> /\ get_invoker(DebateEnv, s_cli) = None
    /\ SynFailedWith("Unavailable") => s_procs = <<WhichProcess(s_cli, FALSE)>>
    /\ SynResultUnchanged

\* an unavailable synthesizer was refused after the lookup
C17_Witness ==
    /\ s_pc = "returned"
    /\ SynFailedWith("Unavailable")
    /\ s_procs = <<WhichProcess(s_cli, FALSE)>>
    /\ s_result = Some(ret[2])

\* ---------------------------------------------------------------------- C18
SynthesisProduced == s_ret # None /\ s_ret[1][1] = "Ok"

AgentFileInvalid(content) ==
    \/ content = None
    \/ content[1].schema_version # "1.0"
    \/ content[1].participants = <<>>
    \/ \E k \in 1..Len(content[1].participants) :
         validate(content[1].participants[k]) # "Ok"

\* the command has read an invalid agent file
InvalidAgentFileMet ==
    /\ c_pc \notin {"off", "start"}
    /\ c_opts.source = "agent_file"
    /\ AgentFileInvalid(c_opts.agent_file)

\* a plugin or template file that does not validate was met while its
\* directory was loaded
InvalidDescriptorMet == warnings # {}

\* no round was started and no backend process was launched
NothingLaunched ==
    /\ pc = "off"
    /\ round = 0
    /\ rounds = <<>>
    /\ tasks = <<>>
    /\ \A i \in Idx : tpc[i] = "idle" /\ inv[i] = None
    /\ s_procs = <<>>

\* C20 as stated: a structurally invalid agent file, plugin descriptor or
\* template descriptor is a fatal error raised before any backend invocation:
\* in no run in which such a descriptor was met is a backend process launched
\* or a debate round started.
C20_InvalidIsFatal ==
    (InvalidAgentFileMet \/ InvalidDescriptorMet) =>
        NothingLaunched /\ c_pc = "failed"

\* C20, amended: an invalid agent file is a fatal error raised before any
\* backend invocation: once AgentFile::load has met it the command has
\* failed with load's error, no round was started and no backend process was
\* launched. An invalid plugin or template descriptor is not fatal: it is
\* warned about and skipped, and the command fails, if at all, with an error
\* of the debate or of the template lookup.
C20_InvalidAgentFileIsFatal ==
    /\ InvalidAgentFileMet =>
         /\ NothingLaunched
         /\ c_pc = "failed"
         /\ c_err \in {Some("ReadOrParse"), Some("SchemaVersion"),
                       Some("NoParticipants"), Some("ValidationFailed")}
    /\ (InvalidDescriptorMet /\ c_err # None) =>
         /\ c_err \in {Some("NoResponders"), Some("TemplateNotFound")}
         /\ c_err = Some("NoResponders") => pc = "aborted" /\ round >= 1
    /\ \A w \in warnings :
         /\ w[1] = "plugin" => load_plugin_file(w[2]) # "Ok"
         /\ w[1] = "template" => load_template_file(w[2]) # "Ok"

\* an agent file of schema 1.0 with a participant whose instructions are too
\* short was rejected before anything was launched
C20_Witness ==
    /\ InvalidAgentFileMet
    /\ c_opts.agent_file # None
    /\ c_opts.agent_file[1].schema_version = "1.0"
    /\ c_opts.rounds >= 1
    /\ c_pc = "failed"
    /\ c_err = Some("ValidationFailed")
    /\ NothingLaunched

\* ---------------------------------------------------------------------- C24
\* the rounds completed so far: the loop variable is one ahead of them
RoundsCompleted == IF round = 0 THEN 0 ELSE round - 1

\* C24: in every reachable state of a debate the accumulated rounds contain
\* only non-empty rounds and there are as many of them as rounds were
\* completed, never more than requested; every step leaves the sequence as it
\* is or appends exactly one round to it, at the completion of a round, and so
\* never changes or removes a round already appended.
C24_RoundsGrowOnly ==
    /\ [](/\ \A k \in 1..Len(rounds) : rounds[k] # <<>>
          /\ Len(rounds) = RoundsCompleted
          /\ Len(rounds) <= num_rounds)
    /\ [][\/ rounds' = rounds
          \/ /\ pc = "joining"
             /\ round' = round + 1
             /\ Len(rounds') = Len(rounds) + 1
             /\ SubSeq(rounds', 1, Len(rounds)) = rounds]_vars

\* two rounds were completed and kept although the third one failed the debate
C24_Witness ==
    /\ pc = "aborted"
    /\ round = 3
    /\ Len(rounds) = 2
    /\ rounds[1] # <<>>
    /\ rounds[2] # <<>>

\* ---------------------------------------------------------------------- C25
\* C25: a debate is in Setup, in a round k of 1..N, Complete or Aborted; the
\* round number only ever advances by one, from Setup to round 1 and from the
\* join of round k to round k+1, so no round is skipped or repeated; Complete
\* is reached only after round N and carries an Ok result, Aborted carries an
\* error; in a terminal state no task is running and no step launches or
\* changes anything; and, with every task scheduled and every invocation
\* completing or timing out, a terminal state is eventually reached.
C25_DebateTerminates ==
    /\ [](/\ pc \in {"entry", "loop", "spawning", "joining", "complete", "aborted"}
          /\ pc = "entry" => round = 0
          /\ pc \in {"spawning", "joining"} => round \in 1..num_rounds
          /\ pc = "loop" => round = Len(rounds) + 1
          /\ pc = "complete" =>
               /\ round = num_rounds + 1
               /\ ret # None /\ ret[1] = "Ok"
               /\ Len(ret[2].rounds) = num_rounds
          /\ pc = "aborted" => ret # None /\ ret[1] = "Err"
          /\ Returned => RunningTasks = {})
    /\ [][/\ round' \in {round, round + 1}
          /\ round' = round + 1 =>
               \/ pc = "entry" /\ round = 0
               \/ pc = "joining" /\ Len(rounds') = round
          /\ pc = "loop" /\ pc' = "spawning" => round = Len(rounds) + 1
          /\ pc' = "complete" => pc = "loop"
          /\ pc' = "aborted" => pc \in {"entry", "joining"}
          /\ Returned => UNCHANGED <<debateVars, warnings>>]_vars
    /\ <>Returned

\* both requested rounds ran and the debate returned its result
C25_Witness ==
    /\ pc = "complete"
    /\ num_rounds = 2
    /\ Len(rounds) = 2
    /\ ret[1] = "Ok"

\* ---------------------------------------------------------------------- C26
\* the round the tasks of the model were launched for
TaskRound == IF pc \in {"loop", "complete"} THEN round - 1 ELSE round

\* task i ended with the diagnostic `kind` in the round of the tasks
Skipped(i, kind) == tpc[i] = "finished" /\ <<TaskRound, i, kind>> \in diag

SkippedTasks == {i \in Idx : Skipped(i, "unknown") \/ Skipped(i, "unavailable")}

\* the backend names of the participant pool that resolve to an invoker in the
\* debate's environment
ResolvingClis ==
    {c \in {p.cli : p \in ParticipantPool} : get_invoker(DebateEnv, c) # None}

\* C26 as stated: a participant whose backend does not resolve or is not
\* available is skipped without any process having been spawned for it.
C26_NoProcessWhenSkipped ==
    \A i \in SkippedTasks : procs[i] = <<>> /\ slot[i] = <<None>>

\* C26: a participant whose backend does not resolve is skipped without any
\* process; one whose backend is not available is skipped after the `which`
\* lookup of the availability check and nothing else; a task is in invoke, or
\* has spawned the backend command, only if the backend resolved and the lookup
\* reported it present; a skipped participant yields no response, so the round
\* holds at most as many responses as participants were not skipped.
C26_NoBackendWhenSkipped ==
    /\ \A i \in Idx :
         /\ Skipped(i, "unknown") => procs[i] = <<>> /\ slot[i] = <<None>>
         /\ Skipped(i, "unavailable") =>
              /\ procs[i] = <<WhichProcess(participants[i].cli, FALSE)>>
              /\ slot[i] = <<None>>
         /\ (\/ tpc[i] = "invoke"
             \/ inv[i] # None
             \/ \E k \in 1..Len(procs[i]) : procs[i][k].kind = "backend") =>
              /\ participants[i].cli \in ResolvingClis
              /\ procs[i] # <<>>
              /\ procs[i][1] = WhichProcess(participants[i].cli, TRUE)
    /\ (pc = "loop" /\ tasks # <<>>) =>
         Len(rounds[TaskRound]) <= Len(participants) - Cardinality(SkippedTasks)

\* the first participant's backend was not installed, the second one answered
\* and the round was appended with that one response
C26_Witness ==
    /\ pc = "loop"
    /\ Len(participants) = 2
    /\ Skipped(1, "unavailable")
    /\ InvokeOk(2)
    /\ Len(rounds[TaskRound]) = 1

\* ---------------------------------------------------------------------- C27
\* C27: the participant list never changes; the tasks launched in a round
\* are the participants of that list in order, one each, whoever abstained or
\* failed before; no task invokes its backend more than once, and a task that
\* finished stays finished until the next round is set up.
C27_OneTaskPerParticipant ==
    /\ [](/\ pc = "spawning" => tasks = [k \in 1..Len(tasks) |-> k]
          /\ pc = "joining" => tasks = [k \in 1..Len(participants) |-> k]
          /\ \A i \in Idx : Attempts(i) <= 1)
    /\ [][/\ participants' = participants
          /\ \A i \in Idx :
               /\ (tpc[i] = "finished" /\ tpc'[i] # "finished") =>
                    pc = "loop" /\ tpc'[i] = "idle"
               /\ (inv[i] # None /\ inv'[i] # inv[i]) => pc = "loop"]_vars

\* in the second round a task runs again for the participant whose invocation
\* failed in the first round and for the one that was skipped in it
C27_Witness ==
    /\ round = 2
    /\ pc = "joining"
    /\ Len(participants) = 2
    /\ <<1, 1, "failed">> \in diag
    /\ tpc[1] = "invoke"
    /\ tpc[2] # "idle"

\* ---------------------------------------------------------------------- C28
\* C28: with a non-empty participant list and zero rounds the call never
\* launches a task, resolves no backend, spawns no process and writes no
\* diagnostic, and when it returns it returns Ok with no rounds and no
\* synthesis.
C28_ZeroRounds ==
    (participants # <<>> /\ num_rounds = 0) =>
      /\ pc \in {"entry", "loop", "complete"}
      /\ tasks = <<>>
      /\ \A i \in Idx : tpc[i] = "idle" /\ inv[i] = None /\ procs[i] = <<>>
      /\ diag = {}
      /\ warnings = {}
      /\ Returned =>
           /\ ret[1] = "Ok"
           /\ ret[2].topic = Topic
           /\ ret[2].rounds = <<>>
           /\ ret[2].synthesis = None

\* the call returned for two participants, one of them with an unknown backend
C28_Witness ==
    /\ pc = "complete"
    /\ num_rounds = 0
    /\ Len(participants) = 2
    /\ get_invoker(DebateEnv, participants[1].cli) = None

\* ---------------------------------------------------------------------- C22
\* the orchestrator was called by the debate command
DebateCalled == c_pc \in {"debate", "synthesis", "done"} \/ (c_pc = "failed" /\ pc # "off")

\* C22: without a participant list the orchestrator is called with three
\* participants, one each of claude, codex and gemini, none with a persona; in
\* multi-instance mode with an accepted backend b and N instances (3 when not
\* given) it is called with N participants, all of backend b as it was typed
\* and none with a persona, and with a backend that is not built in it is
\* not called at all.
C22_DefaultAndInstances ==
    /\ (c_pc # "start" /\ c_opts.source = "default") =>
         /\ DebateCalled
         /\ Len(participants) = 3
         /\ \A b \in {"claude", "codex", "gemini"} :
              Cardinality({i \in Idx : participants[i].cli = b}) = 1
         /\ \A i \in Idx : participants[i].persona = None
    /\ (c_pc # "start" /\ c_opts.source = "agent") =>
         IF ToLowercase(c_opts.agent) \in {"claude", "codex", "gemini"}
         THEN /\ DebateCalled
              /\ Len(participants) =
                   (IF c_opts.instances = None THEN 3 ELSE c_opts.instances[1])
              /\ \A i \in Idx : /\ participants[i].cli = c_opts.agent
                               /\ participants[i].persona = None
         ELSE /\ c_pc = "failed"
              /\ c_err = Some("InvalidCli")
              /\ pc = "off"

\* the default debate completed a round with all three backends answering
C22_Witness ==
    /\ c_opts.source = "default"
    /\ pc = "complete"
    /\ Len(rounds) = 1
    /\ Len(rounds[1]) = 3

\* a multi-instance debate of two instances completed a round
C22_WitnessInstances ==
    /\ c_opts.source = "agent"
    /\ c_opts.instances = Some(2)
    /\ pc = "complete"
    /\ Len(rounds) >= 1
    /\ Len(rounds[1]) = 2

\* ---------------------------------------------------------------------- C23
\* the positions of the commas of a string, with the two ends
Cuts(str) == {0, Len(str) + 1} \cup {k \in 1..Len(str) : str[k] = ","}

\* the comma-separated tokens of a string, trimmed, the empty ones dropped
Tokens(str) ==
    SelectSeq([j \in 1..(Cardinality(Cuts(str)) - 1) |->
                 Trim(SubSeq(str, Nth(Cuts(str), j) + 1, Nth(Cuts(str), j + 1) - 1))],
              LAMBDA tok : tok # <<>>)

Colons(tok) == {k \in 1..Len(tok) : tok[k] = ":"}

C21_JsonRoundTrip ==
    Returned_fn("DebateResult_json") =>
      f_ret[1].deserialized = Some(f_call.result)

\* a result with a multi-byte topic, a response without persona and a
\* synthesis with a recommendation was written and read back
C21_Witness ==
    /\ Returned_fn("DebateResult_json")
    /\ f_call.result.topic = <<"\\u{7279}", " ", "\"", "\\">>
    /\ Len(f_call.result.rounds) = 2
    /\ f_call.result.rounds[1] = <<>>
    /\ Len(f_call.result.rounds[2]) = 2
    /\ f_call.result.rounds[2][1].persona = None
    /\ f_call.result.synthesis # None
    /\ f_call.result.synthesis[1].recommendation # None
    /\ f_ret[1].deserialized # None
    /\ Member(f_ret[1].json, "synthesis") # None

\* a result without rounds, version and synthesis was written and read back
C21_WitnessEmpty ==
    /\ Returned_fn("DebateResult_json")
    /\ f_call.result.rounds = <<>>
    /\ f_call.result.gptengage_version = None
    /\ f_call.result.synthesis = None
    /\ f_ret[1].json[2] = { <<"topic", Serialize_String(f_call.result.topic)>>,
                            <<"rounds", <<"array", <<>> >> >> }

\* ---------------------------------------------------------------------- C29
\* the turns a sessions directory holds under a name, none when there is no
\* readable session of that name
StoredTurns(dir, name) ==
    IF load_session(dir, name)[1] = "Ok" THEN load_session(dir, name)[2].turns
    ELSE <<>>

Other(e) == CHOOSE o \in Execs : o # e

\* the turns execution e adds: the prompt as user, the response as assistant
Exchange(e) == <<Turn("user", i_prompt[e]), Turn("assistant", i_response[e][1])>>

\* C29: the sessions directory changes only in the step in which an execution
\* with a session name returns Ok, after its invocation returned a response;
\* the turns it stores under the name are then the turns it loaded under that
\* name followed by its user turn and its assistant turn, and, when no other
\* execution runs, the turns it loaded are the turns stored until then; a
\* step in which an execution fails (empty prompt, unknown or unavailable
\* backend, failed invocation) leaves the directory as it is.
C29_SaveAfterSuccess ==
    [][/\ store' # store =>
            \E e \in Execs :
              /\ i_pc[e] = "update" /\ i_pc'[e] = "done"
              /\ i_response[e] # None
              /\ i_args[e].session_name # None
              /\ LET name == i_args[e].session_name[1]
                     loaded == IF i_session[e] = None THEN <<>>
                               ELSE i_session[e][1].turns
                 IN /\ StoredTurns(store', name) = loaded \o Exchange(e)
                    /\ i_pc[Other(e)] = "off" => loaded = StoredTurns(store, name)
       /\ \A e \in Execs :
            (i_pc[e] # "failed" /\ i_pc'[e] = "failed") => store' = store]_vars

\* a lone execution on the session "s", which held one exchange, saved it with
\* two exchanges, its own last
C29_Witness ==
    /\ i_pc[1] = "done"
    /\ i_pc[2] = "off"
    /\ i_args[1].session_name = Some(<<"s">>)
    /\ i_session[1] # None
    /\ Len(i_session[1][1].turns) = 2
    /\ StoredTurns(store, <<"s">>) = i_session[1][1].turns \o Exchange(1)

\* ---------------------------------------------------------------------- C30
\* C30: every execution that returned Ok on a session name has its user turn
\* and its assistant turn, one after the other, in the session stored under
\* that name. Executions that run one after the other always satisfy this, so
\* it can only fail for two executions that overlap.
C30_NoLostTurns ==
    \A e \in Execs :
      (i_pc[e] = "done" /\ i_args[e].session_name # None) =>
        \E k \in 1..(Len(StoredTurns(store, i_args[e].session_name[1])) - 1) :
          /\ StoredTurns(store, i_args[e].session_name[1])[k] = Exchange(e)[1]
          /\ StoredTurns(store, i_args[e].session_name[1])[k + 1] = Exchange(e)[2]

====
